---- MODULE Spec2Model ----
(***************************************************************************)
(* Verification model of the CFR+ postflop solver core of gto-cli:         *)
(* the action-tree builder (postflop_tree.rs), the info-set store          *)
(* (cfr.rs), the hand evaluator (lookup_eval.rs) and the river solver      *)
(* (river_solver.rs).                                                      *)
(*                                                                         *)
(* Number representation.  The source computes chip amounts in f64.  Here  *)
(* every chip amount is a fixed-point integer counted in units of 0.005    *)
(* chip, so the source's 0.01 tolerance is Tol = 2 units and amounts       *)
(* strictly between 0 and the tolerance exist (1 unit).  Pot fractions are *)
(* integers in percent; a product pot * frac is rounded down to the grid.  *)
(* Probabilities and values of the solver are exact rationals <<n, d>>.    *)
(* Rust's 0-based player index and vector positions are 1-based here.      *)
(***************************************************************************)
EXTENDS Integers, Sequences, FiniteSets, TLC

VARIABLES
    pc,         \* which entry point has run: position of the caller
    config,     \* the input of the run (TreeConfig, TurnTreeConfig, ...)
    root,       \* the TreeNode returned by build_tree / build_turn_tree
    num_nodes,  \* the u16 count returned next to the root
    info,       \* an InfoSetData under a sequence of update calls
    trainer,    \* CfrTrainer.info_sets of a running solve_river
    iter,       \* solve_river: index of the current sweep
    hand,       \* solve_river: next combination index h of the sweep
    snapshot,   \* solve_river: opp_snapshot of the current sweep
    showdown,   \* solve_river: the ShowdownTable of the run
    result      \* what the entry point returned (Result / RiverSolution)

vars == <<pc, config, root, num_nodes, info, trainer, iter, hand, snapshot, showdown, result>>

Null == [kind |-> "None"]

(***************************************************************************)
(* Bounds of the model                                                     *)
(***************************************************************************)
MaxSizes == 2        \* longest bet_sizes list drawn
MaxRaiseCap == 2     \* largest max_raises drawn
MaxTurnRaises == 1   \* largest max_raises drawn for a two-street tree
MaxActions == 2      \* largest num_actions of a lone InfoSetData
MaxUpdates == 2      \* longest sequence of update calls on it

(***************************************************************************)
(* Small helpers                                                           *)
(***************************************************************************)
Min(a, b) == IF a <= b THEN a ELSE b
Max(a, b) == IF a >= b THEN a ELSE b
Abs(a) == IF a < 0 THEN -a ELSE a
Range(s) == {s[i] : i \in DOMAIN s}

RECURSIVE SeqsUpTo(_, _)
SeqsUpTo(S, n) ==
    IF n = 0 THEN {<<>>}
    ELSE LET shorter == SeqsUpTo(S, n - 1)
         IN shorter \cup {Append(s, x) : s \in {t \in shorter : Len(t) = n - 1}, x \in S}

RECURSIVE SumSeq(_)
SumSeq(s) == IF s = <<>> THEN 0 ELSE s[1] + SumSeq(Tail(s))

RECURSIVE Concat(_)
Concat(ss) == IF ss = <<>> THEN <<>> ELSE ss[1] \o Concat(Tail(ss))

(***************************************************************************)
(* Exact rationals <<n, d>>, d > 0, in lowest terms: the f64 values of     *)
(* cfr.rs and river_solver.rs without their rounding error                 *)
(***************************************************************************)
RECURSIVE GCD(_, _)
GCD(a, b) == IF b = 0 THEN a ELSE GCD(b, a % b)

Norm(n, d) ==
    LET g == GCD(Abs(n), d)
    IN IF n = 0 THEN <<0, 1>> ELSE <<n \div g, d \div g>>
RI(n) == <<n, 1>>
Zero == <<0, 1>>
One == <<1, 1>>
\* sums and comparisons go through the least common denominator and
\* products cancel crosswise first, so no intermediate value is larger
\* than the result needs
RAdd(a, b) ==
    LET g == GCD(a[2], b[2])
    IN Norm(a[1] * (b[2] \div g) + b[1] * (a[2] \div g), (a[2] \div g) * b[2])
RNeg(a) == <<-a[1], a[2]>>
RSub(a, b) == RAdd(a, RNeg(b))
RMul(a, b) ==
    LET g1 == GCD(Abs(a[1]), b[2])
        g2 == GCD(Abs(b[1]), a[2])
    IN IF a[1] = 0 \/ b[1] = 0 THEN <<0, 1>>
       ELSE <<(a[1] \div g1) * (b[1] \div g2), (a[2] \div g2) * (b[2] \div g1)>>
\* a / b for b > 0
RDiv(a, b) == RMul(a, <<b[2], b[1]>>)
RLt(a, b) ==
    LET g == GCD(a[2], b[2])
    IN a[1] * (b[2] \div g) < b[1] * (a[2] \div g)
RLe(a, b) == ~RLt(b, a)
RPos(a) == a[1] > 0
RMax(a, b) == IF RLt(a, b) THEN b ELSE a
\* a < 1e-10
BelowEps(a) == a[1] <= ((a[2] - 1) \div 100000) \div 100000

RECURSIVE RSum(_)
RSum(s) == IF s = <<>> THEN Zero ELSE RAdd(s[1], RSum(Tail(s)))

(***************************************************************************)
(* postflop_tree.rs: players, actions, nodes                               *)
(***************************************************************************)
Tol == 2             \* the 0.01-chip tolerance, in units of 0.005 chip
U16 == 65536         \* node ids and next_id are u16

opponent(p) == IF p = "OOP" THEN "IP" ELSE "OOP"
index(p) == IF p = "OOP" THEN 1 ELSE 2

Check == [type |-> "Check", amt |-> 0]
Fold == [type |-> "Fold", amt |-> 0]
Bet(x) == [type |-> "Bet", amt |-> x]
Call(x) == [type |-> "Call", amt |-> x]
Raise(x) == [type |-> "Raise", amt |-> x]

Showdown == [type |-> "Showdown", folder |-> "none"]
FoldBy(p) == [type |-> "Fold", folder |-> p]

ActionNode(id, p, pot, stacks, actions, children) ==
    [kind |-> "Action", node_id |-> id, player |-> p, pot |-> pot,
     stacks |-> stacks, actions |-> actions, children |-> children]
TerminalNode(tt, pot, stacks, invested) ==
    [kind |-> "Terminal", terminal_type |-> tt, pot |-> pot,
     stacks |-> stacks, invested |-> invested]
ChanceNode(pot, stacks, invested, cards, children) ==
    [kind |-> "Chance", pot |-> pot, stacks |-> stacks, invested |-> invested,
     cards |-> cards, children |-> children]

RECURSIVE count_action_nodes(_)
count_action_nodes(node) ==
    IF node.kind = "Action"
    THEN 1 + SumSeq([i \in DOMAIN node.children |-> count_action_nodes(node.children[i])])
    ELSE IF node.kind = "Chance"
    THEN SumSeq([i \in DOMAIN node.children |-> count_action_nodes(node.children[i])])
    ELSE 0

\* pot * frac with frac in percent, rounded down to the amount grid
MulFrac(pot, frac) == (pot * frac) \div 100

\* a counter that hands the same id out again and again
NextId_stuck(next_id) == next_id

\* *next_id += 1 on a u16 (wrapping, as a release build does)
NextId(next_id) == (next_id + 1) % U16

\* a bet that is not clamped to the stack
ClampBet_unclamped(raw_bet, remaining) == raw_bet

\* raw_bet.min(remaining)
ClampBet(raw_bet, remaining) == Min(raw_bet, remaining)

\* an all-in option that is offered even when no bet size is configured
AllinOption_always(cfg, added_allin, remaining, pot) ==
    /\ cfg.add_allin /\ ~added_allin /\ remaining > Tol
    /\ remaining * 100 > pot * 20

\* the guards of the all-in option of build_open_action; pot * 0.2 is
\* compared exactly
AllinOption(cfg, added_allin, remaining, pot) ==
    /\ cfg.add_allin /\ ~added_allin /\ remaining > Tol /\ cfg.bet_sizes # <<>>
    /\ remaining * 100 > pot * 20

\* a check-back that ends the hand as a fold of IP
CheckBackChild_fold(pot, stacks, invested) ==
    TerminalNode(FoldBy("IP"), pot, stacks, invested)

\* IP checks back -> showdown
CheckBackChild(pot, stacks, invested) ==
    TerminalNode(Showdown, pot, stacks, invested)

\* pre-order list of all nodes of a tree, and of its action-node ids
RECURSIVE NodeSeq(_)
NodeSeq(node) ==
    IF node.kind = "Terminal" THEN <<node>>
    ELSE <<node>> \o Concat([i \in DOMAIN node.children |-> NodeSeq(node.children[i])])

IsAction(node) == node.kind = "Action"
ActionNodes(node) == SelectSeq(NodeSeq(node), IsAction)
ActionIds(node) ==
    LET an == ActionNodes(node)
    IN [i \in DOMAIN an |-> an[i].node_id]

(***************************************************************************)
(* postflop_tree.rs: the single-street builder.  Every builder returns     *)
(* [node, next_id]: the subtree and the id counter after building it.      *)
(***************************************************************************)
RECURSIVE build_node(_, _, _, _, _, _, _, _, _, _)
RECURSIVE build_open_action(_, _, _, _, _, _, _, _)
RECURSIVE build_facing_bet(_, _, _, _, _, _, _, _)
RECURSIVE bet_loop(_, _, _, _, _, _, _, _)
RECURSIVE raise_loop(_, _, _, _, _, _, _, _, _)

\* a loop that records an all-in for every bet it adds
bet_loop_marks_every_bet(cfg, player, pot, stacks, invested, raises, i, st) ==
    IF i > Len(cfg.bet_sizes) THEN st
    ELSE
      LET pi == index(player)
          remaining == stacks[pi]
          raw_bet == MulFrac(pot, cfg.bet_sizes[i])
          bet == ClampBet(raw_bet, remaining)
          is_allin == Abs(bet - remaining) < Tol
      IN IF bet < Tol
         THEN bet_loop(cfg, player, pot, stacks, invested, raises, i + 1, st)
         ELSE IF is_allin /\ st.added_allin
         THEN bet_loop(cfg, player, pot, stacks, invested, raises, i + 1, st)
         ELSE
           LET child == build_node(cfg, opponent(player), pot + bet,
                                   [stacks EXCEPT ![pi] = @ - bet],
                                   [invested EXCEPT ![pi] = @ + bet],
                                   raises, TRUE, bet, FALSE, st.next_id)
           IN bet_loop(cfg, player, pot, stacks, invested, raises, i + 1,
                       [actions |-> Append(st.actions, Bet(bet)),
                        children |-> Append(st.children, child.node),
                        added_allin |-> TRUE,
                        next_id |-> child.next_id])

\* the `for &frac in &config.bet_sizes` loop of build_open_action, from
\* position i on; st = [actions, children, added_allin, next_id]
bet_loop(cfg, player, pot, stacks, invested, raises, i, st) ==
    IF i > Len(cfg.bet_sizes) THEN st
    ELSE
      LET pi == index(player)
          remaining == stacks[pi]
          raw_bet == MulFrac(pot, cfg.bet_sizes[i])
          bet == ClampBet(raw_bet, remaining)
          is_allin == Abs(bet - remaining) < Tol
      IN IF bet < Tol
         THEN bet_loop(cfg, player, pot, stacks, invested, raises, i + 1, st)
         ELSE IF is_allin /\ st.added_allin
         THEN bet_loop(cfg, player, pot, stacks, invested, raises, i + 1, st)
         ELSE
           LET child == build_node(cfg, opponent(player), pot + bet,
                                   [stacks EXCEPT ![pi] = @ - bet],
                                   [invested EXCEPT ![pi] = @ + bet],
                                   raises, TRUE, bet, FALSE, st.next_id)
           IN bet_loop(cfg, player, pot, stacks, invested, raises, i + 1,
                       [actions |-> Append(st.actions, Bet(bet)),
                        children |-> Append(st.children, child.node),
                        added_allin |-> st.added_allin \/ is_allin,
                        next_id |-> child.next_id])

\* an all-in whose amount to call is given as the pot before the bet
build_open_action_pot_to_call(cfg, player, pot, stacks, invested, raises, is_check_back, next_id) ==
    LET pi == index(player)
        remaining == stacks[pi]
        node_id == next_id
        check_child ==
            IF is_check_back
            THEN [node |-> CheckBackChild(pot, stacks, invested),
                  next_id |-> NextId(next_id)]
            ELSE build_node(cfg, "IP", pot, stacks, invested, raises,
                            FALSE, 0, TRUE, NextId(next_id))
        bets == bet_loop(cfg, player, pot, stacks, invested, raises, 1,
                         [actions |-> <<Check>>, children |-> <<check_child.node>>,
                          added_allin |-> FALSE, next_id |-> check_child.next_id])
        allin_child == build_node(cfg, opponent(player), pot + remaining,
                                  [stacks EXCEPT ![pi] = @ - remaining],
                                  [invested EXCEPT ![pi] = @ + remaining],
                                  raises, TRUE, pot, FALSE, bets.next_id)
        with_allin ==
            IF AllinOption(cfg, bets.added_allin, remaining, pot)
            THEN [actions |-> Append(bets.actions, Bet(remaining)),
                  children |-> Append(bets.children, allin_child.node),
                  next_id |-> allin_child.next_id]
            ELSE [actions |-> bets.actions, children |-> bets.children,
                  next_id |-> bets.next_id]
    IN [node |-> ActionNode(node_id, player, pot, stacks,
                            with_allin.actions, with_allin.children),
        next_id |-> with_allin.next_id]

build_open_action(cfg, player, pot, stacks, invested, raises, is_check_back, next_id) ==
    LET pi == index(player)
        remaining == stacks[pi]
        node_id == next_id
        check_child ==
            IF is_check_back
            THEN [node |-> CheckBackChild(pot, stacks, invested),
                  next_id |-> NextId(next_id)]
            ELSE build_node(cfg, "IP", pot, stacks, invested, raises,
                            FALSE, 0, TRUE, NextId(next_id))
        bets == bet_loop(cfg, player, pot, stacks, invested, raises, 1,
                         [actions |-> <<Check>>, children |-> <<check_child.node>>,
                          added_allin |-> FALSE, next_id |-> check_child.next_id])
        allin_child == build_node(cfg, opponent(player), pot + remaining,
                                  [stacks EXCEPT ![pi] = @ - remaining],
                                  [invested EXCEPT ![pi] = @ + remaining],
                                  raises, TRUE, remaining, FALSE, bets.next_id)
        with_allin ==
            IF AllinOption(cfg, bets.added_allin, remaining, pot)
            THEN [actions |-> Append(bets.actions, Bet(remaining)),
                  children |-> Append(bets.children, allin_child.node),
                  next_id |-> allin_child.next_id]
            ELSE [actions |-> bets.actions, children |-> bets.children,
                  next_id |-> bets.next_id]
    IN [node |-> ActionNode(node_id, player, pot, stacks,
                            with_allin.actions, with_allin.children),
        next_id |-> with_allin.next_id]

\* a loop whose raises are not counted against the cap
raise_loop_forgets_count(cfg, player, pot, stacks, invested, raises, call_amount, i, st) ==
    IF i > Len(cfg.raise_sizes) THEN st
    ELSE
      LET pi == index(player)
          remaining == stacks[pi]
          remaining_after_call == remaining - call_amount
          pot_after_call == pot + call_amount
          raise_amount == Min(MulFrac(pot_after_call, cfg.raise_sizes[i]),
                              remaining_after_call)
          total_put_in == call_amount + raise_amount
          is_allin == Abs(total_put_in - remaining) < Tol
      IN IF raise_amount < Tol
         THEN raise_loop(cfg, player, pot, stacks, invested, raises, call_amount, i + 1, st)
         ELSE IF is_allin /\ st.added_allin
         THEN raise_loop(cfg, player, pot, stacks, invested, raises, call_amount, i + 1, st)
         ELSE
           LET child == build_node(cfg, opponent(player), pot + total_put_in,
                                   [stacks EXCEPT ![pi] = @ - total_put_in],
                                   [invested EXCEPT ![pi] = @ + total_put_in],
                                   raises, TRUE, raise_amount, FALSE, st.next_id)
           IN raise_loop(cfg, player, pot, stacks, invested, raises, call_amount, i + 1,
                         [actions |-> Append(st.actions, Raise(total_put_in)),
                          children |-> Append(st.children, child.node),
                          added_allin |-> st.added_allin \/ is_allin,
                          next_id |-> child.next_id])

\* the `for &frac in &config.raise_sizes` loop of build_facing_bet
raise_loop(cfg, player, pot, stacks, invested, raises, call_amount, i, st) ==
    IF i > Len(cfg.raise_sizes) THEN st
    ELSE
      LET pi == index(player)
          remaining == stacks[pi]
          remaining_after_call == remaining - call_amount
          pot_after_call == pot + call_amount
          raise_amount == Min(MulFrac(pot_after_call, cfg.raise_sizes[i]),
                              remaining_after_call)
          total_put_in == call_amount + raise_amount
          is_allin == Abs(total_put_in - remaining) < Tol
      IN IF raise_amount < Tol
         THEN raise_loop(cfg, player, pot, stacks, invested, raises, call_amount, i + 1, st)
         ELSE IF is_allin /\ st.added_allin
         THEN raise_loop(cfg, player, pot, stacks, invested, raises, call_amount, i + 1, st)
         ELSE
           LET child == build_node(cfg, opponent(player), pot + total_put_in,
                                   [stacks EXCEPT ![pi] = @ - total_put_in],
                                   [invested EXCEPT ![pi] = @ + total_put_in],
                                   raises + 1, TRUE, raise_amount, FALSE, st.next_id)
           IN raise_loop(cfg, player, pot, stacks, invested, raises, call_amount, i + 1,
                         [actions |-> Append(st.actions, Raise(total_put_in)),
                          children |-> Append(st.children, child.node),
                          added_allin |-> st.added_allin \/ is_allin,
                          next_id |-> child.next_id])

\* a call that leaves the caller's stack as it was
build_facing_bet_stale_stack(cfg, player, pot, stacks, invested, raises, amount_to_call, next_id) ==
    LET pi == index(player)
        remaining == stacks[pi]
        node_id == next_id
        fold_child == TerminalNode(FoldBy(player), pot, stacks, invested)
        call_amount == Min(amount_to_call, remaining)
        call_child == TerminalNode(Showdown, pot + call_amount,
                                   stacks,
                                   [invested EXCEPT ![pi] = @ + call_amount])
        st0 == [actions |-> <<Fold, Call(call_amount)>>,
                children |-> <<fold_child, call_child>>,
                added_allin |-> FALSE, next_id |-> NextId(next_id)]
        remaining_after_call == remaining - call_amount
        can_raise == raises < cfg.max_raises /\ remaining_after_call > Tol
        sized == raise_loop(cfg, player, pot, stacks, invested, raises, call_amount, 1, st0)
        allin_child == build_node(cfg, opponent(player), pot + remaining,
                                  [stacks EXCEPT ![pi] = 0],
                                  [invested EXCEPT ![pi] = @ + remaining],
                                  raises + 1, TRUE, remaining - call_amount, FALSE,
                                  sized.next_id)
        final ==
            IF ~can_raise THEN st0
            ELSE IF cfg.add_allin /\ ~sized.added_allin /\ remaining_after_call > Tol
            THEN [actions |-> Append(sized.actions, Raise(remaining)),
                  children |-> Append(sized.children, allin_child.node),
                  added_allin |-> sized.added_allin,
                  next_id |-> allin_child.next_id]
            ELSE sized
    IN [node |-> ActionNode(node_id, player, pot, stacks, final.actions, final.children),
        next_id |-> final.next_id]

build_facing_bet(cfg, player, pot, stacks, invested, raises, amount_to_call, next_id) ==
    LET pi == index(player)
        remaining == stacks[pi]
        node_id == next_id
        fold_child == TerminalNode(FoldBy(player), pot, stacks, invested)
        call_amount == Min(amount_to_call, remaining)
        call_child == TerminalNode(Showdown, pot + call_amount,
                                   [stacks EXCEPT ![pi] = @ - call_amount],
                                   [invested EXCEPT ![pi] = @ + call_amount])
        st0 == [actions |-> <<Fold, Call(call_amount)>>,
                children |-> <<fold_child, call_child>>,
                added_allin |-> FALSE, next_id |-> NextId(next_id)]
        remaining_after_call == remaining - call_amount
        can_raise == raises < cfg.max_raises /\ remaining_after_call > Tol
        sized == raise_loop(cfg, player, pot, stacks, invested, raises, call_amount, 1, st0)
        allin_child == build_node(cfg, opponent(player), pot + remaining,
                                  [stacks EXCEPT ![pi] = 0],
                                  [invested EXCEPT ![pi] = @ + remaining],
                                  raises + 1, TRUE, remaining - call_amount, FALSE,
                                  sized.next_id)
        final ==
            IF ~can_raise THEN st0
            ELSE IF cfg.add_allin /\ ~sized.added_allin /\ remaining_after_call > Tol
            THEN [actions |-> Append(sized.actions, Raise(remaining)),
                  children |-> Append(sized.children, allin_child.node),
                  added_allin |-> sized.added_allin,
                  next_id |-> allin_child.next_id]
            ELSE sized
    IN [node |-> ActionNode(node_id, player, pot, stacks, final.actions, final.children),
        next_id |-> final.next_id]

\* a player with exactly 0.01 chips who cannot act
build_node_inclusive(cfg, player, pot, stacks, invested, raises, facing_bet, amount_to_call, oop_checked, next_id) ==
    IF stacks[index(player)] <= Tol
    THEN [node |-> TerminalNode(Showdown, pot, stacks, invested), next_id |-> next_id]
    ELSE IF facing_bet
    THEN build_facing_bet(cfg, player, pot, stacks, invested, raises,
                          amount_to_call, next_id)
    ELSE IF player = "IP" /\ oop_checked
    THEN build_open_action(cfg, player, pot, stacks, invested, raises, TRUE, next_id)
    ELSE IF player = "OOP"
    THEN build_open_action(cfg, player, pot, stacks, invested, raises, FALSE, next_id)
    ELSE [node |-> TerminalNode(Showdown, pot, stacks, invested), next_id |-> next_id]

build_node(cfg, player, pot, stacks, invested, raises, facing_bet, amount_to_call, oop_checked, next_id) ==
    IF stacks[index(player)] < Tol
    THEN [node |-> TerminalNode(Showdown, pot, stacks, invested), next_id |-> next_id]
    ELSE IF facing_bet
    THEN build_facing_bet(cfg, player, pot, stacks, invested, raises,
                          amount_to_call, next_id)
    ELSE IF player = "IP" /\ oop_checked
    THEN build_open_action(cfg, player, pot, stacks, invested, raises, TRUE, next_id)
    ELSE IF player = "OOP"
    THEN build_open_action(cfg, player, pot, stacks, invested, raises, FALSE, next_id)
    ELSE [node |-> TerminalNode(Showdown, pot, stacks, invested), next_id |-> next_id]

\* a root that books the starting pot as money the players invested
build_tree_prefunded(cfg) ==
    build_node(cfg, "OOP", cfg.starting_pot,
               <<cfg.effective_stack, cfg.effective_stack>>,
               <<cfg.starting_pot, 0>>,
               0, FALSE, 0, FALSE, 0)

build_tree(cfg) ==
    build_node(cfg, "OOP", cfg.starting_pot,
               <<cfg.effective_stack, cfg.effective_stack>>, <<0, 0>>,
               0, FALSE, 0, FALSE, 0)

(***************************************************************************)
(* card_encoding.rs and postflop_tree.rs: the two-street builder           *)
(***************************************************************************)
Deck == [i \in 1..52 |-> i - 1]

\* a deck helper that forgets to drop the dead cards
remaining_deck_full(dead) == Deck

remaining_deck(dead) ==
    LET alive(c) == c \notin Range(dead)
    IN SelectSeq(Deck, alive)

\* a match arm that takes every terminal, folds included
IsShowdownTerminal_any(node) == node.kind = "Terminal"

\* the arm `TreeNode::Terminal { terminal_type: TerminalType::Showdown, .. }`
IsShowdownTerminal(node) ==
    node.kind = "Terminal" /\ node.terminal_type = Showdown

RECURSIVE attach_river_streets(_, _, _, _, _, _)
RECURSIVE river_loop(_, _, _, _, _, _, _)
RECURSIVE attach_children(_, _, _, _, _, _, _, _)

\* the `for &_card in river_cards` loop over the cards lo..hi of the list:
\* one build_node per card, in list order, each starting from the counter
\* the one before it left.  The range is split in halves to keep the
\* evaluation shallow; the subtrees and the counter are those of the loop.
river_loop(river_config, pot, eff_stack, invested, lo, hi, next_id) ==
    IF lo > hi THEN [children |-> <<>>, next_id |-> next_id]
    ELSE IF lo = hi
    THEN LET river_root == build_node(river_config, "OOP", pot, <<eff_stack, eff_stack>>,
                                      invested, 0, FALSE, 0, FALSE, next_id)
         IN [children |-> <<river_root.node>>, next_id |-> river_root.next_id]
    ELSE LET mid == (lo + hi) \div 2
             left == river_loop(river_config, pot, eff_stack, invested, lo, mid, next_id)
             right == river_loop(river_config, pot, eff_stack, invested, mid + 1, hi,
                                 left.next_id)
         IN [children |-> left.children \o right.children, next_id |-> right.next_id]

\* children.into_iter().map(|c| attach_river_streets(c, ..)).collect()
attach_children(children, river_bet_sizes, river_raise_sizes, river_max_raises, river_cards, i, acc, next_id) ==
    IF i > Len(children) THEN [children |-> acc, next_id |-> next_id]
    ELSE
      LET c == attach_river_streets(children[i], river_bet_sizes, river_raise_sizes,
                                    river_max_raises, river_cards, next_id)
      IN attach_children(children, river_bet_sizes, river_raise_sizes, river_max_raises,
                         river_cards, i + 1, Append(acc, c.node), c.next_id)

attach_river_streets(node, river_bet_sizes, river_raise_sizes, river_max_raises, river_cards, next_id) ==
    IF IsShowdownTerminal(node)
    THEN
      LET eff_stack == Min(node.stacks[1], node.stacks[2])
          river_config == [bet_sizes |-> river_bet_sizes,
                           raise_sizes |-> river_raise_sizes,
                           max_raises |-> river_max_raises,
                           starting_pot |-> node.pot,
                           effective_stack |-> eff_stack,
                           add_allin |-> TRUE]
          built == river_loop(river_config, node.pot, eff_stack, node.invested,
                              1, Len(river_cards), next_id)
      IN [node |-> ChanceNode(node.pot, node.stacks, node.invested, river_cards,
                              built.children),
          next_id |-> built.next_id]
    ELSE IF node.kind = "Terminal"
    THEN [node |-> node, next_id |-> next_id]
    ELSE IF node.kind = "Action"
    THEN
      LET new == attach_children(node.children, river_bet_sizes, river_raise_sizes,
                                 river_max_raises, river_cards, 1, <<>>, next_id)
      IN [node |-> [node EXCEPT !.children = new.children], next_id |-> new.next_id]
    ELSE [node |-> node, next_id |-> next_id]

build_turn_tree(cfg) ==
    LET turn_tree == build_tree(cfg.turn)
        river_cards == remaining_deck(cfg.board)
    IN attach_river_streets(turn_tree.node, cfg.river_bet_sizes, cfg.river_raise_sizes,
                            cfg.river_max_raises, river_cards, turn_tree.next_id)

(***************************************************************************)
(* cfr.rs: InfoSetData                                                     *)
(***************************************************************************)
InfoSetData_new(num_actions) ==
    [num_actions |-> num_actions,
     cumulative_regret |-> [a \in 1..num_actions |-> Zero],
     cumulative_strategy |-> [a \in 1..num_actions |-> Zero]]

\* vec![1.0 / num_actions as f64; num_actions]
Uniform(num_actions) == [a \in 1..num_actions |-> <<1, num_actions>>]

current_strategy(data) ==
    LET positive == [a \in 1..data.num_actions |-> RMax(data.cumulative_regret[a], Zero)]
        positive_sum == RSum(positive)
    IN IF RPos(positive_sum)
       THEN [a \in 1..data.num_actions |-> RDiv(positive[a], positive_sum)]
       ELSE Uniform(data.num_actions)

\* the cumulative strategy handed out without dividing by its total
average_strategy_unnormalised(data) ==
    LET total == RSum(data.cumulative_strategy)
    IN IF RPos(total)
       THEN data.cumulative_strategy
       ELSE Uniform(data.num_actions)

average_strategy(data) ==
    LET total == RSum(data.cumulative_strategy)
    IN IF RPos(total)
       THEN [a \in 1..data.num_actions |-> RDiv(data.cumulative_strategy[a], total)]
       ELSE Uniform(data.num_actions)

\* vanilla CFR: the cumulative regret is left unfloored
FloorRegret_vanilla(r) == r

\* (..).max(0.0), the CFR+ floor
FloorRegret(r) == RMax(r, Zero)

update(data, action_utilities, node_utility, reach_prob) ==
    LET strategy == current_strategy(data)
    IN [data EXCEPT
          !.cumulative_regret =
              [a \in 1..data.num_actions |->
                  FloorRegret(RAdd(data.cumulative_regret[a],
                                   RSub(action_utilities[a], node_utility)))],
          !.cumulative_strategy =
              [a \in 1..data.num_actions |->
                  RAdd(data.cumulative_strategy[a], RMul(reach_prob, strategy[a]))]]

(***************************************************************************)
(* lookup_eval.rs: the hand evaluator.  A rank mask is the integer whose   *)
(* bit i is set when rank index i (0 = Two .. 12 = Ace) is present.        *)
(***************************************************************************)
RECURSIVE Pow2(_)
Pow2(n) == IF n = 0 THEN 1 ELSE 2 * Pow2(n - 1)

Bit(mask, i) == (mask \div Pow2(i)) % 2 = 1
HasAll(mask, bits) == \A i \in bits : Bit(mask, i)
SetMax(S) == CHOOSE x \in S : \A y \in S : y <= x
SetMin(S) == CHOOSE x \in S : \A y \in S : x <= y

RECURSIVE MaskOf(_)
MaskOf(ranks) ==
    IF ranks = {} THEN 0
    ELSE LET r == SetMax(ranks) IN Pow2(r) + MaskOf(ranks \ {r})

\* a wheel test that is not held back by a straight already found
STRAIGHT_TABLE_wheel_first(mask) ==
    LET highs == {high_bit \in 4..12 : HasAll(mask, (high_bit - 4)..high_bit)}
        best == IF highs = {} THEN 0 ELSE SetMax(highs) + 2
    IN IF HasAll(mask, {12, 0, 1, 2, 3}) THEN 5 ELSE best

STRAIGHT_TABLE(mask) ==
    LET highs == {high_bit \in 4..12 : HasAll(mask, (high_bit - 4)..high_bit)}
        best == IF highs = {} THEN 0 ELSE SetMax(highs) + 2
    IN IF HasAll(mask, {12, 0, 1, 2, 3}) /\ best = 0 THEN 5 ELSE best

\* the fields are disjoint nibbles, so the |= of the source is a sum
hand_score(category, v) ==
    LET shifts == <<16, 12, 8, 4, 0>>
    IN category * Pow2(20)
       + SumSeq([i \in 1..Min(Len(v), 5) |-> v[i] * Pow2(shifts[i])])

\* the set bits of a mask, highest first
RECURSIVE BitsDesc(_, _)
BitsDesc(mask, bit) ==
    IF bit < 0 THEN <<>>
    ELSE (IF Bit(mask, bit) THEN <<bit>> ELSE <<>>) \o BitsDesc(mask, bit - 1)

top_n_from_mask(mask, n) ==
    LET bits == BitsDesc(mask, 12)
    IN [i \in 1..5 |-> IF i <= n /\ i <= Len(bits) THEN bits[i] + 2 ELSE 0]

\* the rank values (2..14) whose count is n, highest first; a read past
\* the filled part of the fixed arrays quad/trip/pair/sing yields their 0
RECURSIVE RanksWith(_, _, _)
RanksWith(rc, n, idx) ==
    IF idx < 0 THEN <<>>
    ELSE (IF rc[idx] = n THEN <<idx + 2>> ELSE <<>>) \o RanksWith(rc, n, idx - 1)
At(list, i) == IF i <= Len(list) THEN list[i] ELSE 0

evaluate_non_flush(rc) ==
    LET quad == RanksWith(rc, 4, 12)
        trip == RanksWith(rc, 3, 12)
        pair == RanksWith(rc, 2, 12)
        sing == RanksWith(rc, 1, 12)
        nq == Len(quad)
        nt == Len(trip)
        np == Len(pair)
        rank_mask == MaskOf({i \in 0..12 : rc[i] > 0})
        sh == STRAIGHT_TABLE(rank_mask)
    IN IF nq >= 1
       THEN hand_score(7, <<quad[1], IF nt > 0 THEN trip[1]
                                     ELSE IF np > 0 THEN pair[1] ELSE At(sing, 1)>>)
       ELSE IF nt >= 1 /\ (np >= 1 \/ nt >= 2)
       THEN hand_score(6, <<trip[1], IF nt >= 2 THEN trip[2] ELSE pair[1]>>)
       ELSE IF sh > 0
       THEN hand_score(4, <<sh>>)
       ELSE IF nt >= 1
       THEN hand_score(3, <<trip[1], At(sing, 1), At(sing, 2)>>)
       ELSE IF np >= 2
       THEN hand_score(2, <<pair[1], pair[2],
                            IF np >= 3 /\ pair[3] > At(sing, 1) THEN pair[3] ELSE At(sing, 1)>>)
       ELSE IF np = 1
       THEN hand_score(1, <<pair[1], At(sing, 1), At(sing, 2), At(sing, 3)>>)
       ELSE hand_score(0, <<At(sing, 1), At(sing, 2), At(sing, 3), At(sing, 4), At(sing, 5)>>)

evaluate_fast(cards) ==
    LET of_rank(r) == {i \in DOMAIN cards : cards[i] \div 4 = r}
        of_suit(t) == {i \in DOMAIN cards : cards[i] % 4 = t}
        rank_counts == [r \in 0..12 |-> Cardinality(of_rank(r))]
        suit_counts == [t \in 0..3 |-> Cardinality(of_suit(t))]
        suit_masks == [t \in 0..3 |-> MaskOf({cards[i] \div 4 : i \in of_suit(t)})]
        flush_suits == {t \in 0..3 : suit_counts[t] >= 5}
    IN IF flush_suits # {}
       THEN LET fmask == suit_masks[SetMin(flush_suits)]
                sf_high == STRAIGHT_TABLE(fmask)
            IN IF sf_high > 0
               THEN (IF sf_high = 14 THEN hand_score(9, <<14>>) ELSE hand_score(8, <<sf_high>>))
               ELSE hand_score(5, top_n_from_mask(fmask, 5))
       ELSE evaluate_non_flush(rank_counts)

(***************************************************************************)
(* card_encoding.rs, and the notation parser of crate::cards and           *)
(* crate::ranges the solver calls.  A card is [rank, suit] with rank       *)
(* 2..14; a board string is its list of two-character card tokens, a range *)
(* string its list of comma-separated hand classes.                        *)
(***************************************************************************)
SuitIdx == [t \in {"s", "h", "d", "c"} |->
               IF t = "s" THEN 0 ELSE IF t = "h" THEN 1 ELSE IF t = "d" THEN 2 ELSE 3]
ALL_SUITS == <<"s", "h", "d", "c">>

card_to_index(card) == (card.rank - 2) * 4 + SuitIdx[card.suit]
index_to_card(idx) == [rank |-> (idx \div 4) + 2, suit |-> ALL_SUITS[(idx % 4) + 1]]

Ok(v) == [kind |-> "Ok", value |-> v]
Err(msg) == [kind |-> "Err", value |-> msg]

\* parse_board: every token must be a card
parse_board(board_str) ==
    IF \E i \in DOMAIN board_str : board_str[i].rank \notin 2..14
    THEN Err("invalid card")
    ELSE Ok(board_str)

\* parse_range: the hand classes listed, in order
parse_range(range_str) == range_str

\* hand_combos: the concrete card pairs of a hand class, suits in the order
\* spades, hearts, diamonds, clubs; anything but a class is an error
hand_combos(hnd) ==
    LET pairs_of(r) == <<<<1, 2>>, <<1, 3>>, <<1, 4>>, <<2, 3>>, <<2, 4>>, <<3, 4>>>>
        suited == [i \in 1..4 |-> <<i, i>>]
        mk(r1, r2, ss) == [i \in DOMAIN ss |->
                             <<[rank |-> r1, suit |-> ALL_SUITS[ss[i][1]]],
                               [rank |-> r2, suit |-> ALL_SUITS[ss[i][2]]]>>]
    IN IF hnd = "AA" THEN Ok(mk(14, 14, pairs_of(14)))
       ELSE IF hnd = "KK" THEN Ok(mk(13, 13, pairs_of(13)))
       ELSE IF hnd = "QQ" THEN Ok(mk(12, 12, pairs_of(12)))
       ELSE IF hnd = "AKs" THEN Ok(mk(14, 13, suited))
       ELSE Err("invalid hand")

(***************************************************************************)
(* river_solver.rs: combos and the showdown table                          *)
(***************************************************************************)
\* a filter that looks at the first three board cards only
expand_range_to_combos_flop_only(range, board) ==
    LET of_hand(hnd) ==
            LET pairs == hand_combos(hnd)
                idx == IF pairs.kind = "Ok"
                       THEN [i \in DOMAIN pairs.value |->
                               <<card_to_index(pairs.value[i][1]),
                                 card_to_index(pairs.value[i][2])>>]
                       ELSE <<>>
                flop == SubSeq(board, 1, Min(3, Len(board)))
                free(c) == c[1] \notin Range(flop) /\ c[2] \notin Range(flop)
            IN SelectSeq(idx, free)
    IN Concat([i \in DOMAIN range |-> of_hand(range[i])])

expand_range_to_combos(range, board) ==
    LET of_hand(hnd) ==
            LET pairs == hand_combos(hnd)
                idx == IF pairs.kind = "Ok"
                       THEN [i \in DOMAIN pairs.value |->
                               <<card_to_index(pairs.value[i][1]),
                                 card_to_index(pairs.value[i][2])>>]
                       ELSE <<>>
                free(c) == c[1] \notin Range(board) /\ c[2] \notin Range(board)
            IN SelectSeq(idx, free)
    IN Concat([i \in DOMAIN range |-> of_hand(range[i])])

\* a conflict test that looks at the first card of `mine` only
ValidAgainst_first_card(mine, theirs) ==
    LET js == [j \in DOMAIN theirs |-> j - 1]
        ok(j) == mine[1] # theirs[j + 1][1] /\ mine[1] # theirs[j + 1][2]
    IN SelectSeq(js, ok)

\* the indices (0-based, ascending) of the combos of `theirs` that share no
\* card with the combo `mine`
ValidAgainst(mine, theirs) ==
    LET js == [j \in DOMAIN theirs |-> j - 1]
        ok(j) == /\ mine[1] # theirs[j + 1][1] /\ mine[1] # theirs[j + 1][2]
                 /\ mine[2] # theirs[j + 1][1] /\ mine[2] # theirs[j + 1][2]
    IN SelectSeq(js, ok)

ShowdownTable_new(oop_combos, ip_combos, board) ==
    [oop_combos |-> oop_combos,
     ip_combos |-> ip_combos,
     valid_ip_for_oop |-> [i \in DOMAIN oop_combos |-> ValidAgainst(oop_combos[i], ip_combos)],
     valid_oop_for_ip |-> [j \in DOMAIN ip_combos |-> ValidAgainst(ip_combos[j], oop_combos)],
     oop_scores |-> [i \in DOMAIN oop_combos |-> evaluate_fast(oop_combos[i] \o board)],
     ip_scores |-> [j \in DOMAIN ip_combos |-> evaluate_fast(ip_combos[j] \o board)]]

num_oop(sd) == Len(sd.oop_combos)
num_ip(sd) == Len(sd.ip_combos)

(***************************************************************************)
(* cfr.rs: CfrTrainer.  info_sets is a function from the keys present,     *)
(* <<hand_bucket, node_id>>, to their InfoSetData.                         *)
(***************************************************************************)
InfoSetKey(hand_bucket, node_id) == <<hand_bucket % U16, node_id>>
CfrTrainer_new == <<>>

get_or_create(info_sets, key, num_actions) ==
    IF key \in DOMAIN info_sets THEN info_sets
    ELSE [k \in DOMAIN info_sets \cup {key} |->
            IF k = key THEN InfoSetData_new(num_actions) ELSE info_sets[k]]

get_strategy(info_sets, key, num_actions) ==
    IF key \in DOMAIN info_sets THEN current_strategy(info_sets[key])
    ELSE Uniform(num_actions)

get_average_strategy(info_sets, key, num_actions) ==
    IF key \in DOMAIN info_sets THEN average_strategy(info_sets[key])
    ELSE Uniform(num_actions)

(***************************************************************************)
(* river_solver.rs: configuration                                          *)
(***************************************************************************)
\* a length check that lets a longer board through
BoardLenOk_atleast(board_cards) == Len(board_cards) >= 5

\* board_cards.len() != 5 is the error
BoardLenOk(board_cards) == Len(board_cards) = 5

RiverSolverConfig_new(board_str, oop_range_str, ip_range_str, starting_pot, effective_stack, iterations) ==
    LET board_cards == parse_board(board_str)
        oop_range == parse_range(oop_range_str)
        ip_range == parse_range(ip_range_str)
    IN IF board_cards.kind = "Err" THEN Err(board_cards.value)
       ELSE IF ~BoardLenOk(board_cards.value)
       THEN Err("River board must have exactly 5 cards")
       ELSE IF oop_range = <<>> THEN Err("OOP range is empty")
       ELSE IF ip_range = <<>> THEN Err("IP range is empty")
       ELSE Ok([board |-> [i \in DOMAIN board_cards.value |->
                                card_to_index(board_cards.value[i])],
                oop_range |-> oop_range,
                ip_range |-> ip_range,
                starting_pot |-> starting_pot,
                effective_stack |-> effective_stack,
                iterations |-> iterations,
                bet_sizes |-> <<33, 67, 100>>,
                raise_sizes |-> <<100>>,
                max_raises |-> 3])

(***************************************************************************)
(* river_solver.rs: CFR+ traversal.  Combination indices are 0-based as    *)
(* in the source; position h + 1 of a sequence holds index h.              *)
(***************************************************************************)
\* a tie that halves the net win instead of the pot
compute_terminal_value_split_tie(terminal_type, pot, invested, traverser, hand_idx, opp_reach, sd) ==
    LET opp_reach_sum == RSum(opp_reach)
        my_invested == RI(invested[index(traverser)])
        win_payoff == RSub(RI(pot), my_invested)
        lose_payoff == RNeg(my_invested)
        tie_payoff == RDiv(RSub(RI(pot), my_invested), RI(2))
        my_score == IF traverser = "OOP" THEN sd.oop_scores[hand_idx + 1]
                    ELSE sd.ip_scores[hand_idx + 1]
        opp_scores == IF traverser = "OOP" THEN sd.ip_scores ELSE sd.oop_scores
        valid == IF traverser = "OOP" THEN sd.valid_ip_for_oop[hand_idx + 1]
                 ELSE sd.valid_oop_for_ip[hand_idx + 1]
        term(k) ==
            LET j == valid[k]
                payoff == IF my_score > opp_scores[j + 1] THEN win_payoff
                          ELSE IF my_score < opp_scores[j + 1] THEN lose_payoff
                          ELSE tie_payoff
            IN IF BelowEps(opp_reach[j + 1]) THEN Zero
               ELSE RMul(opp_reach[j + 1], payoff)
    IN IF BelowEps(opp_reach_sum) THEN Zero
       ELSE IF terminal_type.type = "Fold"
       THEN (IF terminal_type.folder = traverser
             THEN RMul(RNeg(my_invested), opp_reach_sum)
             ELSE RMul(RSub(RI(pot), my_invested), opp_reach_sum))
       ELSE RSum([k \in DOMAIN valid |-> term(k)])

compute_terminal_value(terminal_type, pot, invested, traverser, hand_idx, opp_reach, sd) ==
    LET opp_reach_sum == RSum(opp_reach)
        my_invested == RI(invested[index(traverser)])
        win_payoff == RSub(RI(pot), my_invested)
        lose_payoff == RNeg(my_invested)
        tie_payoff == RSub(<<pot, 2>>, my_invested)
        my_score == IF traverser = "OOP" THEN sd.oop_scores[hand_idx + 1]
                    ELSE sd.ip_scores[hand_idx + 1]
        opp_scores == IF traverser = "OOP" THEN sd.ip_scores ELSE sd.oop_scores
        valid == IF traverser = "OOP" THEN sd.valid_ip_for_oop[hand_idx + 1]
                 ELSE sd.valid_oop_for_ip[hand_idx + 1]
        term(k) ==
            LET j == valid[k]
                payoff == IF my_score > opp_scores[j + 1] THEN win_payoff
                          ELSE IF my_score < opp_scores[j + 1] THEN lose_payoff
                          ELSE tie_payoff
            IN IF BelowEps(opp_reach[j + 1]) THEN Zero
               ELSE RMul(opp_reach[j + 1], payoff)
    IN IF BelowEps(opp_reach_sum) THEN Zero
       ELSE IF terminal_type.type = "Fold"
       THEN (IF terminal_type.folder = traverser
             THEN RMul(RNeg(my_invested), opp_reach_sum)
             ELSE RMul(RSub(RI(pot), my_invested), opp_reach_sum))
       ELSE RSum([k \in DOMAIN valid |-> term(k)])

\* a reach that is handed to every child as it is
WeightReach_unweighted(opp_reach, sigma) == opp_reach

\* r' of an opponent node: r weighted entry by entry by sigma(j, a)
WeightReach(opp_reach, sigma) ==
    [j \in DOMAIN opp_reach |->
        IF RPos(opp_reach[j]) THEN RMul(opp_reach[j], sigma[j]) ELSE Zero]

RECURSIVE collect_strategies(_, _, _, _, _)
RECURSIVE collect_children(_, _, _, _, _, _)

collect_children(children, i, player, num_combos, info_sets, snap) ==
    IF i > Len(children) THEN snap
    ELSE collect_children(children, i + 1, player, num_combos, info_sets,
                          collect_strategies(children[i], player, num_combos, info_sets, snap))

\* a snapshot of the average strategies instead of the current ones
collect_strategies_average(node, player, num_combos, info_sets, snap) ==
    IF node.kind = "Action"
    THEN
      LET strats == [h \in 1..num_combos |->
                        get_average_strategy(info_sets, InfoSetKey(h - 1, node.node_id),
                                     Len(node.actions))]
          inserted == IF node.player = player
                      THEN [id \in DOMAIN snap \cup {node.node_id} |->
                              IF id = node.node_id THEN strats ELSE snap[id]]
                      ELSE snap
      IN collect_children(node.children, 1, player, num_combos, info_sets, inserted)
    ELSE snap

collect_strategies(node, player, num_combos, info_sets, snap) ==
    IF node.kind = "Action"
    THEN
      LET strats == [h \in 1..num_combos |->
                        get_strategy(info_sets, InfoSetKey(h - 1, node.node_id),
                                     Len(node.actions))]
          inserted == IF node.player = player
                      THEN [id \in DOMAIN snap \cup {node.node_id} |->
                              IF id = node.node_id THEN strats ELSE snap[id]]
                      ELSE snap
      IN collect_children(node.children, 1, player, num_combos, info_sets, inserted)
    ELSE snap

snapshot_strategies(info_sets, tree, player, sd) ==
    collect_strategies(tree, player,
                       IF player = "OOP" THEN num_oop(sd) ELSE num_ip(sd),
                       info_sets, <<>>)

RECURSIVE cfr_traverse(_, _, _, _, _, _, _)
RECURSIVE traverser_loop(_, _, _, _, _, _, _, _, _)
RECURSIVE opponent_loop(_, _, _, _, _, _, _, _)

\* the `for a in 0..num_actions` loop at a node of the traverser;
\* st = [action_values, node_value, trainer]
traverser_loop(node, traverser, hand_idx, opp_reach, sd, opp_snapshot, strategy, a, st) ==
    IF a > Len(node.actions) THEN st
    ELSE
      LET sub == cfr_traverse(node.children[a], traverser, hand_idx, opp_reach,
                              sd, opp_snapshot, st.trainer)
      IN traverser_loop(node, traverser, hand_idx, opp_reach, sd, opp_snapshot, strategy,
                        a + 1,
                        [action_values |-> Append(st.action_values, sub.value),
                         node_value |-> RAdd(st.node_value, RMul(strategy[a], sub.value)),
                         trainer |-> sub.trainer])

\* an opponent node that takes its entry from the store with get_or_create
opponent_loop_creates(node, traverser, hand_idx, opp_reach, sd, opp_snapshot, a, st) ==
    IF a > Len(node.actions)
    THEN [st EXCEPT !.trainer = get_or_create(@, InfoSetKey(hand_idx, node.node_id),
                                              Len(node.actions))]
    ELSE
      LET sigma == [j \in DOMAIN opp_reach |->
                      IF node.node_id \in DOMAIN opp_snapshot
                      THEN opp_snapshot[node.node_id][j][a]
                      ELSE <<1, Len(node.actions)>>]
          sub == cfr_traverse(node.children[a], traverser, hand_idx,
                              WeightReach(opp_reach, sigma), sd, opp_snapshot, st.trainer)
      IN opponent_loop(node, traverser, hand_idx, opp_reach, sd, opp_snapshot, a + 1,
                       [value |-> RAdd(st.value, sub.value), trainer |-> sub.trainer])

\* the `for a in 0..num_actions` loop at a node of the opponent;
\* st = [value, trainer]
opponent_loop(node, traverser, hand_idx, opp_reach, sd, opp_snapshot, a, st) ==
    IF a > Len(node.actions) THEN st
    ELSE
      LET sigma == [j \in DOMAIN opp_reach |->
                      IF node.node_id \in DOMAIN opp_snapshot
                      THEN opp_snapshot[node.node_id][j][a]
                      ELSE <<1, Len(node.actions)>>]
          sub == cfr_traverse(node.children[a], traverser, hand_idx,
                              WeightReach(opp_reach, sigma), sd, opp_snapshot, st.trainer)
      IN opponent_loop(node, traverser, hand_idx, opp_reach, sd, opp_snapshot, a + 1,
                       [value |-> RAdd(st.value, sub.value), trainer |-> sub.trainer])

\* returns [value, trainer]: the counterfactual value and the info-set
\* store as the call leaves it
cfr_traverse(node, traverser, hand_idx, opp_reach, sd, opp_snapshot, info_sets) ==
    IF node.kind = "Terminal"
    THEN [value |-> compute_terminal_value(node.terminal_type, node.pot, node.invested,
                                           traverser, hand_idx, opp_reach, sd),
          trainer |-> info_sets]
    ELSE IF node.kind = "Action" /\ node.player = traverser
    THEN
      LET num_actions == Len(node.actions)
          key == InfoSetKey(hand_idx, node.node_id)
          strategy == get_strategy(info_sets, key, num_actions)
          walked == traverser_loop(node, traverser, hand_idx, opp_reach, sd, opp_snapshot,
                                   strategy, 1,
                                   [action_values |-> <<>>, node_value |-> Zero,
                                    trainer |-> info_sets])
          reach_sum == RSum(opp_reach)
          reach_prob == IF RPos(reach_sum) THEN One ELSE Zero
          created == get_or_create(walked.trainer, key, num_actions)
      IN [value |-> walked.node_value,
          trainer |-> [created EXCEPT ![key] =
                          update(@, walked.action_values, walked.node_value, reach_prob)]]
    ELSE IF node.kind = "Action"
    THEN opponent_loop(node, traverser, hand_idx, opp_reach, sd, opp_snapshot, 1,
                       [value |-> Zero, trainer |-> info_sets])
    \* unreachable!("River solver does not use chance nodes")
    ELSE [value |-> "unreachable", trainer |-> info_sets]

\* opp_reach of a hand: 1.0 for non-conflicting combos, 0.0 for blocked
InitialReach(sd, player, h) ==
    LET valid == IF player = "OOP" THEN sd.valid_ip_for_oop[h + 1]
                 ELSE sd.valid_oop_for_ip[h + 1]
        num_opp == IF player = "OOP" THEN num_ip(sd) ELSE num_oop(sd)
    IN [j \in 1..num_opp |-> IF (j - 1) \in Range(valid) THEN One ELSE Zero]

(***************************************************************************)
(* river_solver.rs: exploitability and extraction                          *)
(***************************************************************************)
\* f64::NEG_INFINITY: below every value under RLt
NEG_INFINITY == <<-1, 0>>

RECURSIVE br_traverse(_, _, _, _, _, _)
RECURSIVE avg_strategy_traverse(_, _, _, _, _, _)

\* the max-value action of the best responder, children taken in order
RECURSIVE BestOf(_, _)
\* a responder that takes its first action whatever the values are
BestOf_first(values, best) == IF values = <<>> THEN best ELSE values[1]

BestOf(values, best) ==
    IF values = <<>> THEN best
    ELSE BestOf(Tail(values), IF RLt(best, values[1]) THEN values[1] ELSE best)

AverageReach(opp_reach, node, a, info_sets) ==
    LET sigma == [j \in DOMAIN opp_reach |->
                    get_average_strategy(info_sets, InfoSetKey(j - 1, node.node_id),
                                         Len(node.actions))[a]]
    IN WeightReach(opp_reach, sigma)

br_traverse(node, br_player, hand_idx, opp_reach, sd, info_sets) ==
    IF node.kind = "Terminal"
    THEN compute_terminal_value(node.terminal_type, node.pot, node.invested,
                                br_player, hand_idx, opp_reach, sd)
    ELSE IF node.kind = "Action" /\ node.player = br_player
    THEN BestOf([a \in DOMAIN node.actions |->
                    br_traverse(node.children[a], br_player, hand_idx, opp_reach,
                                sd, info_sets)],
                NEG_INFINITY)
    ELSE IF node.kind = "Action"
    THEN RSum([a \in DOMAIN node.actions |->
                  br_traverse(node.children[a], br_player, hand_idx,
                              AverageReach(opp_reach, node, a, info_sets), sd, info_sets)])
    ELSE "unreachable"

avg_strategy_traverse(node, perspective, hand_idx, opp_reach, sd, info_sets) ==
    IF node.kind = "Terminal"
    THEN compute_terminal_value(node.terminal_type, node.pot, node.invested,
                                perspective, hand_idx, opp_reach, sd)
    ELSE IF node.kind = "Action" /\ node.player = perspective
    THEN LET avg == get_average_strategy(info_sets, InfoSetKey(hand_idx, node.node_id),
                                         Len(node.actions))
         IN RSum([a \in DOMAIN node.actions |->
                     RMul(avg[a],
                          avg_strategy_traverse(node.children[a], perspective, hand_idx,
                                                opp_reach, sd, info_sets))])
    ELSE IF node.kind = "Action"
    THEN RSum([a \in DOMAIN node.actions |->
                  avg_strategy_traverse(node.children[a], perspective, hand_idx,
                                        AverageReach(opp_reach, node, a, info_sets),
                                        sd, info_sets)])
    ELSE "unreachable"

best_response_value(tree, br_player, info_sets, sd) ==
    LET num_br == IF br_player = "OOP" THEN num_oop(sd) ELSE num_ip(sd)
        gain(h) ==
            LET opp_reach == InitialReach(sd, br_player, h)
            IN RSub(br_traverse(tree, br_player, h, opp_reach, sd, info_sets),
                    avg_strategy_traverse(tree, br_player, h, opp_reach, sd, info_sets))
    IN RDiv(RSum([i \in 1..num_br |-> gain(i - 1)]), RI(num_br))

compute_exploitability(tree, info_sets, sd) ==
    RDiv(RAdd(best_response_value(tree, "OOP", info_sets, sd),
              best_response_value(tree, "IP", info_sets, sd)),
         RI(2))

\* Action::label: the name and the amount printed with one decimal, i.e.
\* in tenths of a chip (20 units), ties to even
label(action) ==
    LET q == action.amt \div 20
        r == action.amt % 20
        tenths == IF r < 10 THEN q ELSE IF r > 10 THEN q + 1
                  ELSE IF q % 2 = 0 THEN q ELSE q + 1
    IN IF action.type \in {"Check", "Fold"} THEN [name |-> action.type, tenths |-> 0]
       ELSE [name |-> action.type, tenths |-> tenths]

RECURSIVE extract_node_strategies(_, _, _)
extract_node_strategies(node, info_sets, sd) ==
    IF node.kind = "Action"
    THEN
      LET num_combos == IF node.player = "OOP" THEN num_oop(sd) ELSE num_ip(sd)
          this == [node_id |-> node.node_id,
                   player |-> node.player,
                   actions |-> [a \in DOMAIN node.actions |-> label(node.actions[a])],
                   frequencies |->
                       [h \in 1..num_combos |->
                           get_average_strategy(info_sets,
                                                InfoSetKey(h - 1, node.node_id),
                                                Len(node.actions))]]
      IN <<this>> \o Concat([i \in DOMAIN node.children |->
                                extract_node_strategies(node.children[i], info_sets, sd)])
    ELSE <<>>

Solution(cfg, exploitability, oop_combos, ip_combos, strategies) ==
    [kind |-> "Solution",
     board |-> [i \in DOMAIN cfg.board |-> index_to_card(cfg.board[i])],
     oop_range |-> cfg.oop_range,
     ip_range |-> cfg.ip_range,
     starting_pot |-> cfg.starting_pot,
     effective_stack |-> cfg.effective_stack,
     iterations |-> cfg.iterations,
     exploitability |-> exploitability,
     oop_combos |-> oop_combos,
     ip_combos |-> ip_combos,
     strategies |-> strategies]

ComboStrs(combos) ==
    [i \in DOMAIN combos |-> <<index_to_card(combos[i][1]), index_to_card(combos[i][2])>>]

extract_solution(cfg, tree, info_sets, sd) ==
    Solution(cfg, compute_exploitability(tree, info_sets, sd),
             ComboStrs(sd.oop_combos), ComboStrs(sd.ip_combos),
             extract_node_strategies(tree, info_sets, sd))

empty_solution(cfg) == Solution(cfg, Zero, <<>>, <<>>, <<>>)

\* the TreeConfig solve_river builds: add_allin is always true
SolverTreeConfig(cfg) ==
    [bet_sizes |-> cfg.bet_sizes,
     raise_sizes |-> cfg.raise_sizes,
     max_raises |-> cfg.max_raises,
     starting_pot |-> cfg.starting_pot,
     effective_stack |-> cfg.effective_stack,
     add_allin |-> TRUE]

(***************************************************************************)
(* Inputs of the tree builder                                              *)
(***************************************************************************)
Fracs == {10, 33, 50, 100, 200}
Pots == {5, 10, 2000}
Stacks == {0, 1, 2, 6, 20, 4000}

TreeConfigs ==
    [bet_sizes : SeqsUpTo(Fracs, MaxSizes),
     raise_sizes : SeqsUpTo({50, 100}, 1),
     max_raises : 0..MaxRaiseCap,
     starting_pot : Pots,
     effective_stack : Stacks,
     add_allin : BOOLEAN]

(***************************************************************************)
(* Specification of build_tree: a caller builds one tree from a config     *)
(***************************************************************************)
InitTree ==
    /\ pc = "start"
    /\ config \in TreeConfigs
    /\ root = Null
    /\ num_nodes = 0
    /\ info = Null /\ trainer = Null /\ iter = 0 /\ hand = 0
    /\ snapshot = Null /\ showdown = Null /\ result = Null

BuildTree ==
    /\ pc = "start"
    /\ LET built == build_tree(config)
       IN /\ root' = built.node
          /\ num_nodes' = built.next_id
    /\ pc' = "built"
    /\ UNCHANGED <<config, info, trainer, iter, hand, snapshot, showdown, result>>

NextTree == BuildTree

SpecTree == InitTree /\ [][NextTree]_vars

(***************************************************************************)
(* Specification of build_turn_tree                                        *)
(***************************************************************************)
TurnStacks == {0, 1, 6, 40}
\* boards handed to the builder: it is the caller who keeps them to four
\* distinct cards, so a board with a repeated card is drawn too
Boards == {<<0, 1, 2, 3>>, <<51, 7, 20, 0>>, <<5, 5, 6, 7>>}

TurnTreeConfigs ==
    [turn : [bet_sizes : SeqsUpTo({50, 100}, 1),
             raise_sizes : {<<100>>},
             max_raises : 0..MaxTurnRaises,
             starting_pot : {10},
             effective_stack : TurnStacks,
             add_allin : BOOLEAN],
     river_bet_sizes : SeqsUpTo({100}, 1),
     river_raise_sizes : {<<100>>},
     river_max_raises : 0..MaxTurnRaises,
     board : Boards]

InitTurn ==
    /\ pc = "start"
    /\ config \in TurnTreeConfigs
    /\ root = Null
    /\ num_nodes = 0
    /\ info = Null /\ trainer = Null /\ iter = 0 /\ hand = 0
    /\ snapshot = Null /\ showdown = Null /\ result = Null

BuildTurnTree ==
    /\ pc = "start"
    /\ LET built == build_turn_tree(config)
       IN /\ root' = built.node
          /\ num_nodes' = built.next_id
    /\ pc' = "built"
    /\ UNCHANGED <<config, info, trainer, iter, hand, snapshot, showdown, result>>

NextTurn == BuildTurnTree

SpecTurn == InitTurn /\ [][NextTurn]_vars

(***************************************************************************)
(* Specification of a lone InfoSetData: new(k), then update calls          *)
(***************************************************************************)
Utilities == {RI(-3), Zero, <<5, 2>>}
NodeUtilities == {Zero, One}
Weights == {Zero, One}

InitInfo ==
    /\ pc = "updating"
    /\ \E k \in 1..MaxActions : info = InfoSetData_new(k)
    /\ iter = 0
    /\ config = Null /\ root = Null /\ num_nodes = 0 /\ trainer = Null /\ hand = 0
    /\ snapshot = Null /\ showdown = Null /\ result = Null

Update ==
    /\ pc = "updating"
    /\ iter < MaxUpdates
    /\ \E action_utilities \in [1..info.num_actions -> Utilities],
          node_utility \in NodeUtilities, reach_prob \in Weights :
            info' = update(info, action_utilities, node_utility, reach_prob)
    /\ iter' = iter + 1
    /\ UNCHANGED <<pc, config, root, num_nodes, trainer, hand, snapshot, showdown, result>>

NextInfo == Update

SpecInfo == InitInfo /\ [][NextInfo]_vars

(***************************************************************************)
(* Properties of the info-set store                                        *)
(***************************************************************************)
\* C4: from InfoSetData::new(k) and after any sequence of update calls,
\* whatever the action utilities, the node utility and the non-negative
\* weight, every entry of cumulative_regret is >= 0.
RegretFloor ==
    \A a \in 1..info.num_actions : RLe(Zero, info.cumulative_regret[a])

\* a regret that an update pulled back down to the floor next to one that
\* stayed positive
RegretFloorWitness ==
    /\ iter >= 2
    /\ \E a, b \in 1..info.num_actions :
          /\ info.cumulative_regret[a] = Zero
          /\ RPos(info.cumulative_regret[b])
          /\ RPos(info.cumulative_strategy[a])
          /\ RLt(info.cumulative_strategy[b], info.cumulative_strategy[a])

(***************************************************************************)
(* Properties of two-street trees                                          *)
(***************************************************************************)
IsChance(node) == node.kind = "Chance"
ChanceNodes(node) == SelectSeq(NodeSeq(node), IsChance)
FourDistinctCards(board) ==
    Len(board) = 4 /\ Cardinality(Range(board)) = 4 /\ Range(board) \subseteq 0..51

\* C2: built from a board of 4 distinct cards, every Chance node has 48
\* children, one per card of its cards list, which lists the cards not on
\* the board; the action-node ids of the whole tree are pairwise distinct
\* and their number is the total returned by build_turn_tree.
TurnTreeIdsDistinct ==
    (pc = "built" /\ FourDistinctCards(config.board)) =>
        /\ \A c \in Range(ChanceNodes(root)) :
              /\ Len(c.children) = 48
              /\ Len(c.cards) = 48
              /\ Range(c.cards) = (0..51) \ Range(config.board)
              /\ \A i \in 1..47 : c.cards[i] < c.cards[i + 1]
        /\ LET ids == ActionIds(root)
           IN /\ Cardinality(Range(ids)) = Len(ids)
              /\ Len(ids) = num_nodes

TurnTreeIdsDistinctWitness ==
    /\ pc = "built" /\ FourDistinctCards(config.board)
    /\ Len(ChanceNodes(root)) >= 3
    /\ num_nodes > 200

\* the turn-level skeleton of a two-street tree: every Chance node turned
\* back into the Showdown terminal it carries the pot, stacks and invested of
RECURSIVE Strip(_)
Strip(node) ==
    IF node.kind = "Chance"
    THEN TerminalNode(Showdown, node.pot, node.stacks, node.invested)
    ELSE IF node.kind = "Action"
    THEN [node EXCEPT !.children = [i \in DOMAIN node.children |-> Strip(node.children[i])]]
    ELSE node

\* the nodes reachable from the root without passing through a Chance node
RECURSIVE TurnLevel(_)
TurnLevel(node) ==
    IF node.kind = "Action"
    THEN <<node>> \o Concat([i \in DOMAIN node.children |-> TurnLevel(node.children[i])])
    ELSE <<node>>

\* C3: in a tree built by build_turn_tree every Showdown terminal of the
\* turn action tree has become a Chance node and everything else, Fold
\* terminals included, is as build_tree made it; no Showdown terminal is
\* reachable without passing a Chance node and no Chance node lies below
\* another one.
ShowdownsBecomeChance ==
    pc = "built" =>
        /\ Strip(root) = build_tree(config.turn).node
        /\ \A n \in Range(TurnLevel(root)) : ~IsShowdownTerminal(n)
        /\ \A c \in Range(ChanceNodes(root)) :
              \A i \in DOMAIN c.children : ChanceNodes(c.children[i]) = <<>>

ShowdownsBecomeChanceWitness ==
    /\ pc = "built"
    /\ \E n \in Range(TurnLevel(root)) : n.kind = "Terminal" /\ n.terminal_type.type = "Fold"
    /\ \E c \in Range(ChanceNodes(root)) :
          c.invested # <<0, 0>> /\ c.children[1].kind = "Action"

(***************************************************************************)
(* Properties of single-street trees                                       *)
(***************************************************************************)
\* C1: the action-node ids of the tree returned by build_tree are exactly
\* 0..N-1, each once, where N is the returned count and equals
\* root.count_action_nodes().
IdsContiguous ==
    pc = "built" =>
        LET ids == ActionIds(root)
        IN /\ Len(ids) = num_nodes
           /\ Range(ids) = 0..(num_nodes - 1)
           /\ count_action_nodes(root) = num_nodes

IdsContiguousWitness ==
    /\ pc = "built"
    /\ num_nodes >= 8
    /\ \E i \in DOMAIN ActionIds(root) : i > 1 /\ ActionIds(root)[i] = num_nodes - 1

\* open-action nodes are the action nodes that offer Check
OpenNodes(node) == {n \in Range(ActionNodes(node)) : n.actions[1] = Check}
BetAmounts(n) == {n.actions[i].amt : i \in {j \in DOMAIN n.actions : n.actions[j].type = "Bet"}}
Remaining(n) == n.stacks[index(n.player)]
AllinBets(n) == {i \in DOMAIN n.actions :
                    n.actions[i].type = "Bet" /\ Abs(n.actions[i].amt - Remaining(n)) < Tol}
\* configured sizes whose pot fraction exceeds the actor's remaining stack
Oversized(cfg, n) == {i \in DOMAIN cfg.bet_sizes : n.pot * cfg.bet_sizes[i] > Remaining(n) * 100}

BetsWithinStack(n) ==
    /\ \A x \in BetAmounts(n) : x >= Tol /\ x <= Remaining(n)
    /\ Cardinality(AllinBets(n)) <= 1

\* C6 as stated: every Bet is at least 0.01 and at most the remaining
\* stack, a configured size above the remaining stack appears as
\* Bet(remaining stack), and at most one Bet is within 0.01 of the stack.
OversizedBetIsExactAllin ==
    pc = "built" =>
        \A n \in OpenNodes(root) :
            /\ BetsWithinStack(n)
            /\ Oversized(config, n) # {} => Remaining(n) \in BetAmounts(n)

\* C6 amended: as above, but a configured size above the remaining stack
\* appears as Bet(remaining stack) unless an earlier configured size already
\* gave a bet less than 0.01 below the remaining stack; that bet is then the
\* node's one all-in bet and the clamped size is dropped.
OversizedBetCollapsed ==
    pc = "built" =>
        \A n \in OpenNodes(root) :
            /\ BetsWithinStack(n)
            /\ \A i \in Oversized(config, n) :
                  \/ Remaining(n) \in BetAmounts(n)
                  \/ \E j \in 1..(i - 1) :
                        LET b == MulFrac(n.pot, config.bet_sizes[j])
                        IN /\ b < Remaining(n) /\ Remaining(n) - b < Tol /\ b >= Tol
                           /\ {x \in BetAmounts(n) : Abs(x - Remaining(n)) < Tol} = {b}

OversizedBetCollapsedWitness ==
    /\ pc = "built"
    /\ \E n \in OpenNodes(root) :
          /\ Cardinality(Oversized(config, n)) = 2
          /\ Remaining(n) \in BetAmounts(n)
          /\ Cardinality(BetAmounts(n)) = 1

\* C8: the first action of every open-action node is Check; OOP's Check
\* leads to an open-action node of IP, and IP's Check leads to a Showdown
\* terminal with the pot, stacks and invested of the IP node (nothing has
\* been invested on the check-check line).
CheckCheckShowdown ==
    (pc = "built" /\ root.kind = "Action") =>
        /\ root.player = "OOP" /\ root.actions[1] = Check
        /\ LET ipn == root.children[1]
           IN /\ ipn.kind = "Action" /\ ipn.player = "IP" /\ ipn.actions[1] = Check
              /\ ipn.children[1] = TerminalNode(Showdown, ipn.pot, ipn.stacks, <<0, 0>>)
              /\ ipn.pot = root.pot /\ ipn.stacks = root.stacks
              \* no other node of the tree is an open-action node
              /\ OpenNodes(root) = {root, ipn}
              /\ \A n \in Range(ActionNodes(root)) \ {root, ipn} : n.actions[1] = Fold

CheckCheckShowdownWitness ==
    /\ pc = "built" /\ root.kind = "Action"
    /\ Len(root.children[1].actions) >= 2
    /\ root.children[1].children[1].kind = "Terminal"
    /\ num_nodes >= 4

(***************************************************************************)
(* RiverSolverConfig::new on its own: config holds the arguments of the    *)
(* call and result what it returns.                                        *)
(***************************************************************************)
Card(r, s) == [rank |-> r, suit |-> s]
\* As Kh 4d 5c 8s: three AA and three KK combos survive
BoardA == <<Card(14, "s"), Card(13, "h"), Card(4, "d"), Card(5, "c"), Card(8, "s")>>
\* As Ah Ks 5c 8s: one AA combo survives
BoardB == <<Card(14, "s"), Card(14, "h"), Card(13, "s"), Card(5, "c"), Card(8, "s")>>
\* As Ah Ad 5c 8s: no AA combo survives
BoardC == <<Card(14, "s"), Card(14, "h"), Card(14, "d"), Card(5, "c"), Card(8, "s")>>
BoardStrs ==
    {BoardA, BoardB, BoardC,
     <<>>, SubSeq(BoardA, 1, 3), SubSeq(BoardA, 1, 4),
     BoardA \o <<Card(2, "c")>>,
     <<Card(14, "s"), Card(1, "h"), Card(4, "d"), Card(5, "c"), Card(8, "s")>>,
     <<Card(15, "s"), Card(13, "h"), Card(4, "d")>>}
RangeStrs == {<<>>, <<"AA">>, <<"KK">>, <<"AA", "KK">>, <<"XX">>}
ConfigArgs ==
    [board : BoardStrs, oop_range : RangeStrs, ip_range : RangeStrs,
     starting_pot : {-10, 0, 10}, effective_stack : {-2, 0, 20}, iterations : {100}]

InitConfig ==
    /\ pc = "start"
    /\ config \in ConfigArgs
    /\ result = Null
    /\ root = Null /\ num_nodes = 0 /\ info = Null /\ trainer = <<>>
    /\ iter = 0 /\ hand = 0 /\ snapshot = <<>> /\ showdown = Null

NewConfig ==
    /\ pc = "start"
    /\ result' = RiverSolverConfig_new(config.board, config.oop_range, config.ip_range,
                                       config.starting_pot, config.effective_stack,
                                       config.iterations)
    /\ pc' = "done"
    /\ UNCHANGED <<config, root, num_nodes, info, trainer, iter, hand, snapshot, showdown>>

NextConfig == NewConfig
SpecConfig == InitConfig /\ [][NextConfig]_vars

(***************************************************************************)
(* solve_river as a state machine.  config is a RiverSolverConfig returned *)
(* by RiverSolverConfig::new whose public sizing fields and iteration      *)
(* count the caller has then set.  One step per stage of the function:     *)
(* set-up, the snapshot that opens a sweep, one root traversal per hand,   *)
(* and the extraction.                                                     *)
(***************************************************************************)
MaxIter == 3
SolveStacks == {0, 1, 2, 20}
SolveRanges == {<<"AA">>, <<"KK">>, <<"AA", "KK">>, <<"KK", "XX">>}
SolverConfigs ==
    LET made == {RiverSolverConfig_new(b, o, i, 10, s, 100) :
                    b \in {BoardA, BoardB, BoardC}, o \in SolveRanges,
                    i \in SolveRanges, s \in SolveStacks}
        oks == {m.value : m \in {x \in made : x.kind = "Ok"}}
    IN {[c EXCEPT !.bet_sizes = bs, !.raise_sizes = bs, !.max_raises = 0,
                  !.iterations = n] :
          c \in oks, bs \in {<<>>, <<100>>}, n \in 0..MaxIter}

InitSolve ==
    /\ pc = "start"
    /\ config \in SolverConfigs
    /\ result = Null
    /\ root = Null /\ num_nodes = 0 /\ info = Null /\ trainer = <<>>
    /\ iter = 0 /\ hand = 0 /\ snapshot = <<>> /\ showdown = Null

Traverser == IF iter % 2 = 0 THEN "OOP" ELSE "IP"
NumCombos == IF Traverser = "OOP" THEN num_oop(showdown) ELSE num_ip(showdown)

\* build the tree, expand the ranges; an empty side ends the solve at once
SolveSetup ==
    /\ pc = "start"
    /\ LET built == build_tree(SolverTreeConfig(config))
           oop_combos == expand_range_to_combos(config.oop_range, config.board)
           ip_combos == expand_range_to_combos(config.ip_range, config.board)
       IN /\ root' = built.node
          /\ num_nodes' = built.next_id
          /\ IF oop_combos = <<>> \/ ip_combos = <<>>
             THEN /\ result' = empty_solution(config)
                  /\ pc' = "done"
                  /\ UNCHANGED <<showdown, trainer>>
             ELSE /\ showdown' = ShowdownTable_new(oop_combos, ip_combos, config.board)
                  /\ trainer' = CfrTrainer_new
                  /\ pc' = "sweep"
                  /\ UNCHANGED result
    /\ UNCHANGED <<config, info, iter, hand, snapshot>>

\* the head of `for iter in 0..config.iterations`: snapshot the opponent
SweepStart ==
    /\ pc = "sweep" /\ iter < config.iterations
    /\ snapshot' = snapshot_strategies(trainer, root, opponent(Traverser), showdown)
    /\ hand' = 0
    /\ pc' = "hands"
    /\ UNCHANGED <<config, root, num_nodes, info, trainer, iter, showdown, result>>

\* the body of `for h in 0..num_combos`
TraverseHand ==
    /\ pc = "hands" /\ hand < NumCombos
    /\ trainer' = cfr_traverse(root, Traverser, hand,
                               InitialReach(showdown, Traverser, hand),
                               showdown, snapshot, trainer).trainer
    /\ hand' = hand + 1
    /\ UNCHANGED <<pc, config, root, num_nodes, info, iter, snapshot, showdown, result>>

SweepEnd ==
    /\ pc = "hands" /\ hand = NumCombos
    /\ iter' = iter + 1
    /\ pc' = "sweep"
    /\ UNCHANGED <<config, root, num_nodes, info, trainer, hand, snapshot, showdown, result>>

Extract ==
    /\ pc = "sweep" /\ iter = config.iterations
    /\ result' = extract_solution(config, root, trainer, showdown)
    /\ pc' = "done"
    /\ UNCHANGED <<config, root, num_nodes, info, trainer, iter, hand, snapshot, showdown>>

NextSolve == SolveSetup \/ SweepStart \/ TraverseHand \/ SweepEnd \/ Extract
SpecSolve == InitSolve /\ [][NextSolve]_vars

NodeById(id) == CHOOSE n \in Range(ActionNodes(root)) : n.node_id = id
CombosOf(player) == IF player = "OOP" THEN result.oop_combos ELSE result.ip_combos
Untouched(key) ==
    \/ key \notin DOMAIN trainer
    \/ \A a \in DOMAIN trainer[key].cumulative_strategy :
          trainer[key].cumulative_strategy[a] = Zero

\* C5: in the Solution returned by solve_river after any number of
\* iterations, every frequencies row has one entry per action of its node,
\* every entry lies in [0,1] and the row sums to 1; an info-set never
\* updated, or whose cumulative strategy is all zero, gives the uniform row.
RowsAreDistributions ==
    pc = "done" =>
        /\ result.kind = "Solution"
        /\ \A k \in DOMAIN result.strategies :
              LET ns == result.strategies[k]
                  node == NodeById(ns.node_id)
              IN /\ Len(ns.actions) = Len(node.actions)
                 /\ Len(ns.frequencies) = Len(CombosOf(ns.player))
                 /\ \A h \in DOMAIN ns.frequencies :
                       LET row == ns.frequencies[h]
                       IN /\ Len(row) = Len(node.actions)
                          /\ \A a \in DOMAIN row : RLe(Zero, row[a]) /\ RLe(row[a], One)
                          /\ RSum(row) = One
                          /\ Untouched(InfoSetKey(h - 1, ns.node_id)) =>
                                row = Uniform(Len(node.actions))

\* a solution that reports a row that is not uniform next to the row of an
\* info-set that was updated with weight zero only
RowsAreDistributionsWitness ==
    /\ pc = "done" /\ config.iterations >= 3
    /\ \E k \in DOMAIN result.strategies :
          LET ns == result.strategies[k]
          IN \E h, g \in DOMAIN ns.frequencies :
                /\ ns.frequencies[h] # Uniform(Len(ns.actions))
                /\ InfoSetKey(g - 1, ns.node_id) \in DOMAIN trainer
                /\ Untouched(InfoSetKey(g - 1, ns.node_id))

CheckOnly ==
    config.bet_sizes = <<>> /\ config.raise_sizes = <<>> /\ config.max_raises = 0
CheckOnlyOutcome ==
    /\ num_nodes = 2 /\ Len(ActionNodes(root)) = 2
    /\ root.kind = "Action" /\ root.player = "OOP" /\ root.actions = <<Check>>
    /\ LET ipn == root.children[1]
       IN /\ ipn.kind = "Action" /\ ipn.player = "IP" /\ ipn.actions = <<Check>>
          /\ ipn.children[1].kind = "Terminal"
          /\ ipn.children[1].terminal_type = Showdown
          /\ ipn.children[1].pot = config.starting_pot
    /\ \A k \in DOMAIN result.strategies :
          \A h \in DOMAIN result.strategies[k].frequencies :
              result.strategies[k].frequencies[h] = <<One>>
    /\ result.exploitability = Zero

\* C7 as stated: with bet_sizes = [], raise_sizes = [], max_raises = 0 and
\* a positive stack the tree is OOP Check, IP Check, Showdown at the
\* starting pot, every reported frequency is 1 and the exploitability is 0.
CheckOnlyAnyPositiveStack ==
    (pc = "done" /\ CheckOnly /\ config.effective_stack > 0) => CheckOnlyOutcome

\* C7 amended: the same for a stack of at least 0.01 chips, the builder's
\* tolerance for "no stack left".
CheckOnlyStackAboveTol ==
    (pc = "done" /\ CheckOnly /\ config.effective_stack >= Tol) => CheckOnlyOutcome

CheckOnlyStackAboveTolWitness ==
    /\ pc = "done" /\ CheckOnly /\ config.effective_stack * 100 > config.starting_pot * 20
    /\ config.iterations >= 2
    /\ Len(result.strategies) = 2
    /\ Len(result.strategies[1].frequencies) >= 3
    /\ DOMAIN trainer # {}

\* C10: a solve in which the OOP or the IP range has no combination left
\* once the combinations sharing a card with the board are removed ends in
\* an EmptyRange error and returns no Solution.
EmptyRangeIsError ==
    (/\ pc = "done"
     /\ \/ expand_range_to_combos(config.oop_range, config.board) = <<>>
        \/ expand_range_to_combos(config.ip_range, config.board) = <<>>)
    => result.kind = "Err"

\* C9: RiverSolverConfig::new returns an error, and no configuration,
\* whenever the parsed board does not have exactly 5 cards; with a 5-card
\* board and two ranges that parse to non-empty lists it returns Ok with the
\* board as indices and the default sizings.
BoardLengthValidated ==
    pc = "done" =>
        LET parsed == parse_board(config.board)
        IN /\ (parsed.kind = "Ok" /\ Len(parsed.value) # 5) =>
                 result = Err("River board must have exactly 5 cards")
           /\ (parsed.kind = "Ok" /\ Len(parsed.value) = 5
               /\ parse_range(config.oop_range) # <<>>
               /\ parse_range(config.ip_range) # <<>>) =>
                 /\ result.kind = "Ok"
                 /\ Len(result.value.board) = 5
                 /\ result.value.board =
                       [i \in 1..5 |-> card_to_index(parsed.value[i])]
                 /\ result.value.bet_sizes = <<33, 67, 100>>
                 /\ result.value.raise_sizes = <<100>>
                 /\ result.value.max_raises = 3

\* a board of six cards given with two good ranges was refused
BoardLengthValidatedWitness ==
    /\ pc = "done"
    /\ Len(config.board) = 6
    /\ parse_board(config.board).kind = "Ok"
    /\ config.oop_range = <<"AA">> /\ config.ip_range = <<"KK">>
    /\ result.kind = "Err"

\* C11: RiverSolverConfig::new rejects a starting_pot <= 0 or an
\* effective_stack < 0 with an error, so no configuration with such amounts
\* exists for a tree to be built from.
InvalidAmountsRejected ==
    (pc = "done" /\ (config.starting_pot <= 0 \/ config.effective_stack < 0))
    => result.kind = "Err"

(***************************************************************************)
(* expand_range_to_combos on its own: config holds the list of hand        *)
(* classes and the board, result the combinations returned.                *)
(***************************************************************************)
MaxHands == 2
HandClasses == {"AA", "KK", "QQ", "AKs", "XX"}
\* As Ah Ad Ac Ks Kh 2s 3h
BoardPool == {48, 49, 50, 51, 44, 45, 0, 5}
RECURSIVE SortedSeq(_)
SortedSeq(S) ==
    IF S = {} THEN <<>>
    ELSE LET x == SetMin(S) IN <<x>> \o SortedSeq(S \ {x})
ExpandBoards == {SortedSeq(B) : B \in {X \in SUBSET BoardPool : Cardinality(X) \in 3..5}}

InitExpand ==
    /\ pc = "start"
    /\ config \in [range : SeqsUpTo(HandClasses, MaxHands), board : ExpandBoards]
    /\ result = Null
    /\ root = Null /\ num_nodes = 0 /\ info = Null /\ trainer = <<>>
    /\ iter = 0 /\ hand = 0 /\ snapshot = <<>> /\ showdown = Null

Expand ==
    /\ pc = "start"
    /\ result' = expand_range_to_combos(config.range, config.board)
    /\ pc' = "done"
    /\ UNCHANGED <<config, root, num_nodes, info, trainer, iter, hand, snapshot, showdown>>

NextExpand == Expand
SpecExpand == InitExpand /\ [][NextExpand]_vars

\* the parser's pairs of a hand class as index pairs, in the parser's order
ParserCombos(hnd) ==
    LET pairs == hand_combos(hnd)
    IN IF pairs.kind = "Ok"
       THEN [i \in DOMAIN pairs.value |->
               <<card_to_index(pairs.value[i][1]), card_to_index(pairs.value[i][2])>>]
       ELSE <<>>
AllParserCombos(range) == Concat([i \in DOMAIN range |-> ParserCombos(range[i])])
Unblocked(c, board) == {c[1], c[2]} \cap Range(board) = {}
Choose2(n) == (n * (n - 1)) \div 2
RankOnBoard(r, board) == Cardinality({c \in Range(board) : c \div 4 = r - 2})

\* C12: expand_range_to_combos returns exactly the parser's combinations
\* of the given classes that hold no board card, in the parser's order: no
\* returned combination holds a board card, no unblocked one is missing,
\* and a pocket pair with k of its cards on the board gives C(4-k, 2).
ExpandFiltersBoard ==
    pc = "done" =>
        LET all == AllParserCombos(config.range)
            keep == {i \in DOMAIN all : Unblocked(all[i], config.board)}
        IN /\ \A i \in DOMAIN result : Unblocked(result[i], config.board)
           /\ \A i \in keep : \E j \in DOMAIN result : result[j] = all[i]
           /\ Len(result) = Cardinality(keep)
           \* order: the i-th survivor of the parser's list is result[i]
           /\ \A i \in keep :
                 result[Cardinality({j \in keep : j <= i})] = all[i]
           /\ (config.range = <<"AA">>) =>
                 Len(result) = Choose2(4 - RankOnBoard(14, config.board))
           /\ (config.range = <<"KK">>) =>
                 Len(result) = Choose2(4 - RankOnBoard(13, config.board))
           /\ (config.range = <<"QQ">>) => Len(result) = 6

\* a pair class with two of its cards on the board next to a suited class
\* that lost some but not all of its combinations
ExpandFiltersBoardWitness ==
    /\ pc = "done"
    /\ config.range = <<"AKs", "AA">>
    /\ RankOnBoard(14, config.board) = 2
    /\ RankOnBoard(13, config.board) = 1
    /\ Len(result) = 2

\* C13: the list returned by expand_range_to_combos never holds the same
\* two-card combination twice, whatever list of hand classes it is given.
NoDuplicateCombos ==
    pc = "done" =>
        \A i, j \in DOMAIN result :
            i # j => {result[i][1], result[i][2]} # {result[j][1], result[j][2]}

(***************************************************************************)
(* Both builders together: a caller builds one tree, single-street from a  *)
(* TreeConfig or two-street from a TurnTreeConfig.                         *)
(***************************************************************************)
IsTurnConfig(cfg) == "board" \in DOMAIN cfg
InitBuild == InitTree \/ InitTurn
BuildSingle == ~IsTurnConfig(config) /\ BuildTree
BuildTwoStreet == IsTurnConfig(config) /\ BuildTurnTree
NextBuild == BuildSingle \/ BuildTwoStreet
SpecBuild == InitBuild /\ [][NextBuild]_vars

StartingPot == IF IsTurnConfig(config) THEN config.turn.starting_pot ELSE config.starting_pot
IsTerminal(node) == node.kind = "Terminal"
Terminals(node) == SelectSeq(NodeSeq(node), IsTerminal)

\* C14: in every Terminal node of a tree built by build_tree or
\* build_turn_tree, pot = starting_pot + invested[0] + invested[1].
TerminalPotIsInvested ==
    pc = "built" =>
        \A n \in Range(Terminals(root)) :
            n.pot = StartingPot + n.invested[1] + n.invested[2]

\* a two-street tree with a river terminal that both players paid into on
\* both streets
TerminalPotIsInvestedWitness ==
    /\ pc = "built" /\ IsTurnConfig(config)
    /\ \E c \in Range(ChanceNodes(root)) :
          /\ c.invested[1] > 0 /\ c.invested[2] > 0
          /\ \E n \in Range(Terminals(c.children[1])) :
                /\ n.invested[1] > c.invested[1] /\ n.invested[2] > c.invested[2]
                /\ n.terminal_type = Showdown

\* the amount an action puts in: 0 for Check and Fold
Contributed(action) == IF action.type \in {"Check", "Fold"} THEN 0 ELSE action.amt

\* walks the tree with the invested pair the edges from the root add up to;
\* Action nodes do not store invested, Terminal and Chance nodes do
RECURSIVE EdgesAccount(_, _)
EdgesAccount(node, inv) ==
    IF node.kind = "Terminal" THEN node.invested = inv
    ELSE IF node.kind = "Chance"
    THEN /\ node.invested = inv
         /\ \A i \in DOMAIN node.children : EdgesAccount(node.children[i], inv)
    ELSE \A a \in DOMAIN node.actions :
            LET x == Contributed(node.actions[a])
                pi == index(node.player)
                child == node.children[a]
            IN /\ child.pot = node.pot + x
               /\ child.stacks = [node.stacks EXCEPT ![pi] = @ - x]
               /\ EdgesAccount(child, [inv EXCEPT ![pi] = @ + x])

\* C15: along every Bet, Call or Raise edge with contributed amount x the
\* child has pot = parent pot + x, the actor's stack lower by x and the
\* actor's invested higher by x, the other player's stack and invested
\* unchanged; a Check or Fold edge changes none of pot, stacks, invested.
EdgesMoveChips ==
    pc = "built" => EdgesAccount(root, <<0, 0>>)

\* a tree with a bet, a raise over it and a call of the raise
EdgesMoveChipsWitness ==
    /\ pc = "built"
    /\ \E n \in Range(ActionNodes(root)) :
          \E a \in DOMAIN n.actions :
             /\ n.actions[a].type = "Raise"
             /\ n.children[a].kind = "Action"
             /\ n.children[a].actions[2].type = "Call"
             /\ n.children[a].actions[2].amt > 0
             /\ n.children[a].children[2].invested[1] > 0
             /\ n.children[a].children[2].invested[2] > 0

(***************************************************************************)
(* evaluate_fast on its own: config holds the 5 to 7 distinct cards of the *)
(* call, result the score returned.                                        *)
(***************************************************************************)
\* 2s 2h 2d 2c 3s 3h 3d Kd As: quads, full houses, trips and pairs
PoolPairs == {0, 1, 2, 3, 4, 5, 6, 46, 48}
\* 9s Ts Js Qs Ks As 9h Td Ah: flushes, straight flushes, straights
PoolSuited == {28, 32, 36, 40, 44, 48, 29, 34, 49}
\* 2s 3s 4s 5s 6h 7d As Ad 5h: the wheel next to higher straights
PoolWheel == {0, 4, 8, 12, 17, 22, 48, 50, 13}
\* 2h 4d 7c 7s 9d 9c Jh Js Kc: high cards and up to three pairs
PoolLoose == {1, 10, 23, 20, 30, 31, 37, 36, 47}
HandsOf(P) == {SortedSeq(X) : X \in {Y \in SUBSET P : Cardinality(Y) \in 5..7}}
Hands == HandsOf(PoolPairs) \cup HandsOf(PoolSuited) \cup HandsOf(PoolWheel)
             \cup HandsOf(PoolLoose)

InitEval ==
    /\ pc = "start"
    /\ config \in [cards : Hands]
    /\ result = Null
    /\ root = Null /\ num_nodes = 0 /\ info = Null /\ trainer = <<>>
    /\ iter = 0 /\ hand = 0 /\ snapshot = <<>> /\ showdown = Null

Evaluate ==
    /\ pc = "start"
    /\ result' = evaluate_fast(config.cards)
    /\ pc' = "done"
    /\ UNCHANGED <<config, root, num_nodes, info, trainer, iter, hand, snapshot, showdown>>

NextEval == Evaluate
SpecEval == InitEval /\ [][NextEval]_vars

FiveCardSubsets(cards) == {X \in SUBSET Range(cards) : Cardinality(X) = 5}
BestFive(cards) == SetMax({evaluate_fast(SortedSeq(X)) : X \in FiveCardSubsets(cards)})

\* C16: for 7 distinct cards evaluate_fast returns the maximum of
\* evaluate_fast over the 21 five-card subsets, and for 6 cards over the 6
\* subsets.
ScoreIsBestFive ==
    (pc = "done" /\ Len(config.cards) \in {6, 7}) =>
        result = BestFive(config.cards)

(***************************************************************************)
(* STRAIGHT_TABLE on its own: config is a 13-bit rank mask, result the     *)
(* table entry read for it.                                                *)
(***************************************************************************)
InitStraight ==
    /\ pc = "start"
    /\ config \in 0..8191
    /\ result = Null
    /\ root = Null /\ num_nodes = 0 /\ info = Null /\ trainer = <<>>
    /\ iter = 0 /\ hand = 0 /\ snapshot = <<>> /\ showdown = Null

LookupStraight ==
    /\ pc = "start"
    /\ result' = STRAIGHT_TABLE(config)
    /\ pc' = "done"
    /\ UNCHANGED <<config, root, num_nodes, info, trainer, iter, hand, snapshot, showdown>>

NextStraight == LookupStraight
SpecStraight == InitStraight /\ [][NextStraight]_vars

\* rank value r (2..14) is present in the mask
HasRank(mask, r) == (mask \div Pow2(r - 2)) % 2 = 1
\* the five ranks ending in h are all present
Window(mask, h) == \A r \in (h - 4)..h : HasRank(mask, r)
HasWheel(mask) == HasRank(mask, 14) /\ \A r \in 2..5 : HasRank(mask, r)

\* C17: STRAIGHT_TABLE[mask] is the high card (6..14) of the highest
\* window of five consecutive set bits, or 5 when the mask holds A,2,3,4,5
\* and no higher straight, or 0 when it holds no straight; so the wheel
\* scores as a straight strictly below 2-3-4-5-6.
StraightTableCorrect ==
    pc = "done" =>
        /\ \A h \in 6..14 :
              (Window(config, h) /\ \A g \in (h + 1)..14 : ~Window(config, g))
              => result = h
        /\ (HasWheel(config) /\ \A h \in 6..14 : ~Window(config, h)) => result = 5
        /\ (~HasWheel(config) /\ \A h \in 6..14 : ~Window(config, h)) => result = 0
        /\ result = 5 => hand_score(4, <<result>>) < hand_score(4, <<STRAIGHT_TABLE(31)>>)

\* the mask A,2,3,4,5,6: wheel and six-high straight together
StraightTableCorrectWitness ==
    /\ pc = "done"
    /\ HasWheel(config) /\ Window(config, 6) /\ ~Window(config, 7)
    /\ result = 6

(***************************************************************************)
(* compute_terminal_value on its own, against the showdown table of a      *)
(* fixed spot: config holds the arguments of the call, result the value.   *)
(***************************************************************************)
\* Kd 7s 2c 3d 9h: AKs keeps AsKs, AhKh, AcKc and KK keeps KsKh, KsKc, KhKc
BoardT == <<46, 20, 3, 6, 29>>
TableT ==
    ShowdownTable_new(expand_range_to_combos(<<"AKs">>, BoardT),
                      expand_range_to_combos(<<"AKs", "KK">>, BoardT), BoardT)
ReachValues == {Zero, <<1, 3>>, One}
ReachVectors(n) == [1..n -> ReachValues]
TerminalArgs ==
    {[terminal_type |-> tt, pot |-> pi[1], invested |-> pi[2], traverser |-> t,
      hand_idx |-> h, opp_reach |-> r] :
        tt \in {Showdown, FoldBy("OOP"), FoldBy("IP")},
        pi \in {<<10, <<0, 0>>>>, <<25, <<10, 5>>>>, <<31, <<7, 14>>>>},
        t \in {"OOP"}, h \in 0..(num_oop(TableT) - 1),
        r \in ReachVectors(num_ip(TableT))}
    \cup
    {[terminal_type |-> tt, pot |-> pi[1], invested |-> pi[2], traverser |-> t,
      hand_idx |-> h, opp_reach |-> r] :
        tt \in {Showdown, FoldBy("OOP"), FoldBy("IP")},
        pi \in {<<10, <<0, 0>>>>, <<25, <<10, 5>>>>, <<31, <<7, 14>>>>},
        t \in {"IP"}, h \in 0..(num_ip(TableT) - 1),
        r \in ReachVectors(num_oop(TableT))}

InitTerminal ==
    /\ pc = "start"
    /\ config \in TerminalArgs
    /\ showdown = TableT
    /\ result = Null
    /\ root = Null /\ num_nodes = 0 /\ info = Null /\ trainer = <<>>
    /\ iter = 0 /\ hand = 0 /\ snapshot = <<>>

TerminalValue ==
    /\ pc = "start"
    /\ result' = compute_terminal_value(config.terminal_type, config.pot, config.invested,
                                        config.traverser, config.hand_idx,
                                        config.opp_reach, showdown)
    /\ pc' = "done"
    /\ UNCHANGED <<config, root, num_nodes, info, trainer, iter, hand, snapshot, showdown>>

NextTerminal == TerminalValue
SpecTerminal == InitTerminal /\ [][NextTerminal]_vars

\* the traverser's combination and score, and the opponent's, read off the
\* combination lists and the board
MyCombo == IF config.traverser = "OOP" THEN showdown.oop_combos[config.hand_idx + 1]
           ELSE showdown.ip_combos[config.hand_idx + 1]
OppCombos == IF config.traverser = "OOP" THEN showdown.ip_combos ELSE showdown.oop_combos
ComboScore(c) == evaluate_fast(c \o BoardT)
Disjoint(c, d) == {c[1], c[2]} \cap {d[1], d[2]} = {}
ShowdownTerm(j) ==
    LET m == RI(config.invested[index(config.traverser)])
        p == RI(config.pot)
        r == config.opp_reach[j]
        mine == ComboScore(MyCombo)
        theirs == ComboScore(OppCombos[j])
    IN IF ~Disjoint(MyCombo, OppCombos[j]) \/ BelowEps(r) THEN Zero
       ELSE IF mine > theirs THEN RMul(r, RSub(p, m))
       ELSE IF mine < theirs THEN RMul(r, RNeg(m))
       ELSE RMul(r, RSub(RDiv(p, RI(2)), m))

\* C18: compute_terminal_value returns 0 if sum(r) < 1e-10; -m * sum(r) at
\* a Fold terminal where the traverser folded; (p - m) * sum(r) where the
\* opponent folded; at a Showdown the sum over the opponent combos j valid
\* against h with r[j] >= 1e-10 of r[j] times (p - m) on a win, -m on a
\* loss and p/2 - m on a tie.
TerminalValueFormula ==
    pc = "done" =>
        LET m == RI(config.invested[index(config.traverser)])
            p == RI(config.pot)
            total == RSum(config.opp_reach)
        IN result =
             IF BelowEps(total) THEN Zero
             ELSE IF config.terminal_type = FoldBy(config.traverser)
             THEN RMul(RNeg(m), total)
             ELSE IF config.terminal_type.type = "Fold"
             THEN RMul(RSub(p, m), total)
             ELSE RSum([j \in DOMAIN config.opp_reach |-> ShowdownTerm(j)])

\* a showdown of OOP's AsKs in which a tie, a loss, a blocked combination
\* that has reach and a valid one that has none all occur
TerminalValueFormulaWitness ==
    /\ pc = "done" /\ config.terminal_type = Showdown /\ config.traverser = "OOP"
    /\ config.invested[1] > 0
    /\ \E a \in DOMAIN config.opp_reach :
          /\ RPos(config.opp_reach[a]) /\ Disjoint(MyCombo, OppCombos[a])
          /\ ComboScore(MyCombo) = ComboScore(OppCombos[a])
    /\ \E b \in DOMAIN config.opp_reach :
          /\ RPos(config.opp_reach[b]) /\ Disjoint(MyCombo, OppCombos[b])
          /\ ComboScore(MyCombo) < ComboScore(OppCombos[b])
    /\ \E c \in DOMAIN config.opp_reach :
          RPos(config.opp_reach[c]) /\ ~Disjoint(MyCombo, OppCombos[c])
    /\ \E d \in DOMAIN config.opp_reach :
          config.opp_reach[d] = Zero /\ Disjoint(MyCombo, OppCombos[d])
    /\ result # Zero

\* the player a sweep traverses for, by the parity of its number, and the
\* length of that player's combination list
SweepPlayer(t) == IF t % 2 = 0 THEN "OOP" ELSE "IP"
SweepLength(t) == IF t % 2 = 0 THEN Len(showdown.oop_combos) ELSE Len(showdown.ip_combos)
\* a step of the hand loop: one traversal from the root for index `hand`
RootTraversal ==
    /\ hand' = hand + 1
    /\ hand < SweepLength(iter)
    /\ iter' = iter
    /\ trainer' = cfr_traverse(root, SweepPlayer(iter), hand,
                               InitialReach(showdown, SweepPlayer(iter), hand),
                               showdown, snapshot, trainer).trainer
\* the trainer only changes in a root traversal, the hand index only moves
\* up by one in a root traversal or back to 0 when a sweep starts, and a
\* sweep is only counted once every index has been traversed
SweepSteps ==
    /\ (trainer' # trainer /\ pc # "start") => RootTraversal
    /\ hand' # hand => (RootTraversal \/ (hand' = 0 /\ pc = "sweep" /\ iter' = iter))
    /\ iter' # iter => (iter' = iter + 1 /\ hand = SweepLength(iter) /\ hand' = hand)

\* C19: solve_river performs exactly `iterations` sweeps with no early
\* exit; sweep t traverses for OOP when t is even and for IP when t is odd,
\* and within a sweep cfr_traverse is invoked from the root exactly once for
\* each combination index of the traverser, in ascending index order.
ExactlyIterationsSweeps ==
    /\ [](pc = "done" => iter = config.iterations)
    /\ [][SweepSteps]_vars

\* the owner of the action node an info-set key names
KeyOwner(key) == NodeById(key[2]).player
\* the keys a step creates or whose data it changes
Written == {key \in DOMAIN trainer' : key \notin DOMAIN trainer \/ trainer'[key] # trainer[key]}

\* C20: during a sweep whose traverser is player t, the only info-set
\* entries created or modified are those keyed by (h, node_id) with
\* node_id an action node owned by t; every info-set at a node owned by
\* the opponent of t keeps its cumulative_regret and cumulative_strategy.
SweepWritesOwnNodes ==
    [][/\ DOMAIN trainer \subseteq DOMAIN trainer'
       /\ \A key \in Written :
             /\ key[1] = hand
             /\ key[2] \in {n.node_id : n \in Range(ActionNodes(root))}
             /\ KeyOwner(key) = SweepPlayer(iter)
       /\ \A key \in DOMAIN trainer :
             KeyOwner(key) = opponent(SweepPlayer(iter)) =>
                /\ trainer'[key].cumulative_regret = trainer[key].cumulative_regret
                /\ trainer'[key].cumulative_strategy = trainer[key].cumulative_strategy]_vars

\* the end of the third sweep: OOP has traversed every hand again while
\* IP's info-sets, written in the second sweep, are in the store
SweepWritesOwnNodesWitness ==
    /\ pc = "hands" /\ iter = 2 /\ hand = SweepLength(iter) /\ hand > 1
    /\ \E k1, k2 \in DOMAIN trainer :
          /\ KeyOwner(k1) = "OOP" /\ KeyOwner(k2) = "IP"
          /\ \E x \in DOMAIN trainer[k2].cumulative_regret :
                RPos(trainer[k2].cumulative_regret[x])

\* C21: within one sweep the opponent strategy applied at an
\* opponent-owned node for opponent combination j is the opponent's
\* regret-matching strategy as it was at the start of the sweep, the same
\* for every traverser hand of the sweep; reading the live info-set store
\* instead of the snapshot at any point of the sweep gives the same values.
SnapshotEqualsLiveStore ==
    pc = "hands" =>
        \A n \in Range(ActionNodes(root)) :
            n.player = opponent(SweepPlayer(iter)) =>
               /\ n.node_id \in DOMAIN snapshot
               /\ Len(snapshot[n.node_id]) = SweepLength(iter + 1)
               /\ \A j \in 1..SweepLength(iter + 1) :
                     snapshot[n.node_id][j] =
                        IF <<j - 1, n.node_id>> \in DOMAIN trainer
                        THEN current_strategy(trainer[<<j - 1, n.node_id>>])
                        ELSE Uniform(Len(n.actions))

\* the third sweep after OOP has traversed a hand: IP's snapshot holds a
\* row that is not uniform
SnapshotEqualsLiveStoreWitness ==
    /\ pc = "hands" /\ iter = 2 /\ hand >= 1
    /\ \E id \in DOMAIN snapshot : \E j \in DOMAIN snapshot[id] :
          \E x \in DOMAIN snapshot[id][j] : snapshot[id][j][x] # snapshot[id][j][1]

\* the info-set of the root for the hand being traversed, before the step
RootKey == <<hand, root.node_id>>
RootData == IF RootKey \in DOMAIN trainer THEN trainer[RootKey]
            ELSE InfoSetData_new(Len(root.actions))

\* C22: at an action node owned by the traverser the strategy weight passed
\* to the info-set update equals the scalar sum of the opponent reach vector
\* r at that node (zero when the sum is zero), so cumulative_strategy[a]
\* grows by sum(r) times the current strategy of action a.  Stated at the
\* root, where r is the initial reach of the hand.
WeightIsReachSum ==
    [][(pc = "hands" /\ hand' = hand + 1 /\ root.kind = "Action"
          /\ root.player = SweepPlayer(iter)) =>
         LET r == InitialReach(showdown, SweepPlayer(iter), hand)
             sigma == current_strategy(RootData)
         IN \A a \in 1..Len(root.actions) :
               trainer'[RootKey].cumulative_strategy[a] =
                  RAdd(RootData.cumulative_strategy[a], RMul(RSum(r), sigma[a]))]_vars

\* a configured size whose clamped bet is within the tolerance of the
\* actor's remaining stack
ConfiguredAllin(cfg, n) ==
    \E i \in DOMAIN cfg.bet_sizes :
        Abs(Min(MulFrac(n.pot, cfg.bet_sizes[i]), Remaining(n)) - Remaining(n)) < Tol
AboveFifthOfPot(n) == Remaining(n) * 100 > n.pot * 20

FoldThenCall(n) ==
    /\ Len(n.actions) >= 2
    /\ n.actions[1] = Fold
    /\ n.children[1].kind = "Terminal"
    /\ n.children[1].terminal_type = FoldBy(n.player)
    /\ n.actions[2].type = "Call"
    /\ n.children[2].kind = "Terminal"
    /\ n.children[2].terminal_type = Showdown
    /\ \A i \in 3..Len(n.actions) : n.actions[i].type = "Raise"
RaiseCount(n) == Cardinality({i \in DOMAIN n.actions : n.actions[i].type = "Raise"})
\* walk of a single-street tree: `facing` says that the edge into the node
\* is a Bet or a Raise, `raises` counts the Raise edges on the path to it
RECURSIVE FacingOK(_, _, _, _)
FacingOK(cfg, node, facing, raises) ==
    IF node.kind # "Action" THEN raises <= cfg.max_raises
    ELSE
      /\ facing => FoldThenCall(node)
      /\ ~facing => RaiseCount(node) = 0
      /\ RaiseCount(node) > 0 =>
            /\ raises < cfg.max_raises
            /\ Remaining(node) - node.actions[2].amt > Tol
      /\ cfg.max_raises = 0 => RaiseCount(node) = 0
      /\ \A i \in DOMAIN node.actions :
            FacingOK(cfg, node.children[i],
                     node.actions[i].type \in {"Bet", "Raise"},
                     IF node.actions[i].type = "Raise" THEN raises + 1 ELSE raises)

\* C24: every facing-bet node lists Fold first (child: Fold terminal with
\* folder = the actor) and Call second (child: Showdown terminal), and
\* offers Raise actions only when fewer than max_raises raises have been
\* made on the street and the actor keeps more than 0.01 chips after
\* calling; no root-to-terminal path of a single street holds more than
\* max_raises Raise actions, and with max_raises = 0 no Raise exists.
RaisesRespectCap == pc = "built" => FacingOK(config, root, FALSE, 0)

\* a tree with a facing-bet node that raises, and a later facing-bet node
\* on the same path that has stack left after calling and may not raise
RaisesRespectCapWitness ==
    /\ pc = "built" /\ config.max_raises = 1
    /\ \E n \in Range(ActionNodes(root)) :
          /\ n.actions[1] = Fold /\ RaiseCount(n) > 0
          /\ \E i \in 3..Len(n.actions) :
                LET c == n.children[i]
                IN /\ c.kind = "Action" /\ c.actions[1] = Fold /\ RaiseCount(c) = 0
                   /\ Remaining(c) - c.actions[2].amt > Tol

\* the root as the construction rules describe it: OOP to act with id 0,
\* no bet outstanding, Check first
RootIsOpenOOP ==
    /\ root.kind = "Action" /\ root.player = "OOP" /\ root.node_id = 0
    /\ root.actions[1] = Check
    /\ \A i \in DOMAIN root.actions : root.actions[i].type \in {"Check", "Bet"}

\* C25 as stated: for every valid configuration (starting_pot > 0,
\* effective_stack >= 0, effective_stack = 0 included) the root of the tree
\* returned by build_tree is an action node owned by OOP with id 0, not
\* facing a bet, whose first action is Check.
RootAlwaysActs ==
    (pc = "built" /\ config.starting_pot > 0 /\ config.effective_stack >= 0)
        => RootIsOpenOOP

\* C25 amended: that is the root for an effective stack of at least 0.01;
\* below it the tree is a single Showdown terminal at the starting pot.
RootActsAboveTol ==
    (pc = "built" /\ config.starting_pot > 0 /\ config.effective_stack >= 0) =>
        IF config.effective_stack >= Tol THEN RootIsOpenOOP
        ELSE /\ root = TerminalNode(Showdown, config.starting_pot,
                                    <<config.effective_stack, config.effective_stack>>,
                                    <<0, 0>>)
             /\ num_nodes = 0

RootActsAboveTolWitness ==
    /\ pc = "built" /\ config.effective_stack = Tol /\ config.bet_sizes # <<>>
    /\ RootIsOpenOOP /\ Len(root.actions) >= 2

(***************************************************************************)
(* ShowdownTable::new on its own: config holds the two ranges and the      *)
(* board, showdown the table built from their combinations.                *)
(***************************************************************************)
TableRanges == {<<"AA">>, <<"KK">>, <<"AKs">>, <<"AA", "KK">>, <<"AKs", "AA">>,
                <<"QQ", "AKs">>, <<"XX">>}
\* Kd 7s 2c 3d 9h / As Kh 4d 5c 8s / 2s 3h 4d 5c 8s
TableBoards == {BoardT, <<48, 45, 10, 15, 24>>, <<0, 5, 10, 15, 24>>}

InitTable ==
    /\ pc = "start"
    /\ config \in [oop_range : TableRanges, ip_range : TableRanges, board : TableBoards]
    /\ showdown = Null
    /\ result = Null
    /\ root = Null /\ num_nodes = 0 /\ info = Null /\ trainer = <<>>
    /\ iter = 0 /\ hand = 0 /\ snapshot = <<>>

BuildTable ==
    /\ pc = "start"
    /\ showdown' = ShowdownTable_new(expand_range_to_combos(config.oop_range, config.board),
                                     expand_range_to_combos(config.ip_range, config.board),
                                     config.board)
    /\ pc' = "done"
    /\ UNCHANGED <<config, root, num_nodes, info, trainer, iter, hand, snapshot, result>>

NextTable == BuildTable
SpecTable == InitTable /\ [][NextTable]_vars

Ascending(s) == \A a, b \in DOMAIN s : a < b => s[a] < s[b]

\* C26: valid_ip_for_oop[i] is the ascending list of exactly those indices
\* j for which oop_combos[i] and ip_combos[j] share no card,
\* valid_oop_for_ip[j] is the symmetric list, and j is in
\* valid_ip_for_oop[i] if and only if i is in valid_oop_for_ip[j].
ValidListsSymmetric ==
    pc = "done" =>
        LET oop == showdown.oop_combos
            ip == showdown.ip_combos
        IN /\ DOMAIN showdown.valid_ip_for_oop = DOMAIN oop
           /\ DOMAIN showdown.valid_oop_for_ip = DOMAIN ip
           /\ \A i \in DOMAIN oop :
                 /\ Ascending(showdown.valid_ip_for_oop[i])
                 /\ Range(showdown.valid_ip_for_oop[i]) =
                       {j - 1 : j \in {k \in DOMAIN ip : Disjoint(oop[i], ip[k])}}
           /\ \A j \in DOMAIN ip :
                 /\ Ascending(showdown.valid_oop_for_ip[j])
                 /\ Range(showdown.valid_oop_for_ip[j]) =
                       {i - 1 : i \in {k \in DOMAIN oop : Disjoint(oop[k], ip[j])}}
           /\ \A i \in DOMAIN oop : \A j \in DOMAIN ip :
                 (j - 1) \in Range(showdown.valid_ip_for_oop[i])
                    <=> (i - 1) \in Range(showdown.valid_oop_for_ip[j])

\* a table in which one OOP combination is blocked against some IP
\* combinations through its second card only, and free against others
ValidListsSymmetricWitness ==
    /\ pc = "done"
    /\ \E i \in DOMAIN showdown.oop_combos :
          /\ Len(showdown.valid_ip_for_oop[i]) >= 2
          /\ \E j \in DOMAIN showdown.ip_combos :
                /\ showdown.oop_combos[i][2] \in Range(showdown.ip_combos[j])
                /\ showdown.oop_combos[i][1] \notin Range(showdown.ip_combos[j])
                /\ (j - 1) \notin Range(showdown.valid_ip_for_oop[i])

\* walks a single-street tree with the invested pair of the path: a Call
\* pays what the actor is behind, stacks stay at or above zero, a Showdown
\* terminal has both players level
RECURSIVE CallsMatch(_, _)
CallsMatch(node, inv) ==
    /\ node.stacks[1] >= 0 /\ node.stacks[2] >= 0
    /\ IF node.kind = "Terminal"
       THEN node.terminal_type = Showdown => node.invested[1] = node.invested[2]
       ELSE \A a \in DOMAIN node.actions :
               LET pi == index(node.player)
                   behind == inv[index(opponent(node.player))] - inv[pi]
               IN /\ node.actions[a].type = "Call" =>
                        /\ node.actions[a].amt = behind
                        /\ behind <= node.stacks[pi]
                  /\ CallsMatch(node.children[a],
                                [inv EXCEPT ![pi] = @ + Contributed(node.actions[a])])

\* C27: in every tree built by build_tree a Call is never clamped by the
\* caller's stack: the Call amount equals the outstanding bet or raise, no
\* stack is ever negative, and at every Showdown terminal invested[0]
\* equals invested[1].
CallNeverClamped == pc = "built" => CallsMatch(root, <<0, 0>>)

\* a call of a raise that takes the caller's whole stack
CallNeverClampedWitness ==
    /\ pc = "built"
    /\ \E n \in Range(ActionNodes(root)) :
          \E a \in DOMAIN n.actions :
             LET c == n.children[a]
             IN /\ n.actions[a].type = "Raise" /\ c.kind = "Action"
                /\ c.actions[2].type = "Call"
                /\ c.actions[2].amt = Remaining(c)
                /\ c.children[2].stacks = <<0, 0>>
                /\ c.children[2].invested[1] = config.effective_stack

(***************************************************************************)
(* The payoffs of both players at the terminals of a built tree: config    *)
(* is the tree config, showdown the table, result the payoff pairs.        *)
(***************************************************************************)
\* TableT with the two ranges exchanged
TableTSwapped ==
    ShowdownTable_new(expand_range_to_combos(<<"AKs", "KK">>, BoardT),
                      expand_range_to_combos(<<"AKs">>, BoardT), BoardT)
PayoffConfigs ==
    [bet_sizes : {<<>>, <<50>>, <<33, 100>>},
     raise_sizes : {<<>>, <<100>>},
     max_raises : 0..1,
     starting_pot : {10, 25},
     effective_stack : {0, 6, 20, 40},
     add_allin : BOOLEAN]
\* reach 1 on opponent combination j (0-based) and 0 elsewhere
UnitReach(j, n) == [k \in 1..n |-> IF k = j + 1 THEN One ELSE Zero]
\* the (i, j) pairs, 0-based, of an OOP and an IP combination without a
\* common card
FreePairs(sd) ==
    {<<i, j>> \in (0..(num_oop(sd) - 1)) \X (0..(num_ip(sd) - 1)) :
        j \in Range(sd.valid_ip_for_oop[i + 1])}
PayoffPair(t, i, j, sd) ==
    [terminal |-> t, oop |-> i, ip |-> j,
     oop_value |-> compute_terminal_value(t.terminal_type, t.pot, t.invested, "OOP", i,
                                          UnitReach(j, num_ip(sd)), sd),
     ip_value |-> compute_terminal_value(t.terminal_type, t.pot, t.invested, "IP", j,
                                         UnitReach(i, num_oop(sd)), sd)]

InitPayoff ==
    /\ pc = "start"
    /\ config \in PayoffConfigs
    /\ showdown \in {TableT, TableTSwapped}
    /\ result = Null
    /\ root = Null /\ num_nodes = 0 /\ info = Null /\ trainer = <<>>
    /\ iter = 0 /\ hand = 0 /\ snapshot = <<>>

Payoffs ==
    /\ pc = "start"
    /\ LET built == build_tree(config)
       IN /\ root' = built.node
          /\ num_nodes' = built.next_id
          /\ result' = {PayoffPair(t, p[1], p[2], showdown) :
                           t \in Range(Terminals(built.node)), p \in FreePairs(showdown)}
    /\ pc' = "done"
    /\ UNCHANGED <<config, info, trainer, iter, hand, snapshot, showdown>>

NextPayoff == Payoffs
SpecPayoff == InitPayoff /\ [][NextPayoff]_vars

\* C28: the game is constant-sum: at every terminal node of a built tree
\* and for every pair of non-conflicting OOP and IP combinations, the
\* payoff of OOP plus the payoff of IP (each with unit reach on the other's
\* combination) equals starting_pot, for fold, win, loss and tie alike.
PayoffsSumToPot ==
    pc = "done" =>
        /\ \A t \in Range(Terminals(root)) :
              \A i \in DOMAIN showdown.oop_combos, j \in DOMAIN showdown.ip_combos :
                 Disjoint(showdown.oop_combos[i], showdown.ip_combos[j]) =>
                    \E x \in result : x.terminal = t /\ x.oop = i - 1 /\ x.ip = j - 1
        /\ \A x \in result : RAdd(x.oop_value, x.ip_value) = RI(config.starting_pot)

\* a tree whose payoffs include a fold after a bet, a tie and a decided
\* showdown with chips invested, and a showdown OOP wins
PayoffsSumToPotWitness ==
    /\ pc = "done"
    /\ \E x \in result :
          x.terminal.terminal_type = FoldBy("IP") /\ x.terminal.invested[1] > 0
    /\ \E x \in result :
          /\ x.terminal.terminal_type = Showdown /\ x.terminal.invested[1] > 0
          /\ x.oop_value = x.ip_value
    /\ \E x \in result :
          /\ x.terminal.terminal_type = Showdown /\ x.terminal.invested[1] > 0
          /\ RLt(x.ip_value, Zero) /\ RPos(x.oop_value)

\* the combination lists seen from `player`
OwnCombos(player) == IF player = "OOP" THEN showdown.oop_combos ELSE showdown.ip_combos
FoeCombos(player) == IF player = "OOP" THEN showdown.ip_combos ELSE showdown.oop_combos
\* a reach vector of the opponent for hand h (0-based) of `player`: entries
\* in [0,1], 0 for every combination sharing a card with the hand
ReachInRange(player, h, reach) ==
    /\ DOMAIN reach = DOMAIN FoeCombos(player)
    /\ \A j \in DOMAIN reach :
          /\ RLe(Zero, reach[j]) /\ RLe(reach[j], One)
          /\ ~Disjoint(OwnCombos(player)[h + 1], FoeCombos(player)[j]) => reach[j] = Zero
\* the reach handed to child a of an opponent node: weighted by the
\* snapshot in cfr_traverse, by the average strategy in br_traverse
ChildReach(node, a, reach, averaged) ==
    IF averaged THEN AverageReach(reach, node, a, trainer)
    ELSE WeightReach(reach, [j \in DOMAIN reach |->
                               IF node.node_id \in DOMAIN snapshot
                               THEN snapshot[node.node_id][j][a]
                               ELSE <<1, Len(node.actions)>>])
\* walk of the nodes a traversal for hand h visits, with the reach it
\* carries to each
RECURSIVE ReachWalk(_, _, _, _, _)
ReachWalk(node, player, h, reach, averaged) ==
    /\ ReachInRange(player, h, reach)
    /\ node.kind = "Action" =>
          IF node.player = player
          THEN \A a \in DOMAIN node.actions :
                  ReachWalk(node.children[a], player, h, reach, averaged)
          ELSE LET kids == [a \in DOMAIN node.actions |->
                              ChildReach(node, a, reach, averaged)]
               IN /\ \A j \in DOMAIN reach :
                        RSum([a \in DOMAIN node.actions |-> kids[a][j]]) = reach[j]
                  /\ \A a \in DOMAIN node.actions :
                        ReachWalk(node.children[a], player, h, kids[a], averaged)

\* C29: in every traversal started by solve_river or best_response_value
\* for a hand h, at every node visited the reach of each opponent
\* combination that shares a card with h is 0, every reach entry lies in
\* [0,1], and at an opponent-owned node the reach vectors passed to the
\* children add up entry by entry to the reach vector of the node.
ReachIsConserved ==
    /\ (pc = "hands" /\ hand < NumCombos) =>
          ReachWalk(root, Traverser, hand, InitialReach(showdown, Traverser, hand), FALSE)
    /\ (pc = "done" /\ showdown # Null) =>
          \A player \in {"OOP", "IP"} :
             \A h \in 0..(Len(OwnCombos(player)) - 1) :
                ReachWalk(root, player, h, InitialReach(showdown, player, h), TRUE)

\* a finished solve with a hand that blocks some but not all opponent
\* combinations, an opponent node with a choice, and a learned strategy
ReachIsConservedWitness ==
    /\ pc = "done" /\ showdown # Null /\ iter >= 2
    /\ root.kind = "Action" /\ root.children[1].kind = "Action"
    /\ Len(root.children[1].actions) >= 2
    /\ \E i \in DOMAIN showdown.oop_combos :
          /\ showdown.valid_ip_for_oop[i] # <<>>
          /\ Len(showdown.valid_ip_for_oop[i]) < num_ip(showdown)
    /\ \E key \in DOMAIN trainer : \E a \in DOMAIN trainer[key].cumulative_strategy :
          average_strategy(trainer[key])[a] \notin {Zero, One, <<1, 2>>, <<1, 3>>}

\* C30: for each player and each of that player's hands the value of
\* br_traverse is at least the value of avg_strategy_traverse from the same
\* root and initial reach, for the store left by any number of sweeps;
\* hence each player's gain and the exploitability returned by
\* compute_exploitability are never negative.
BestResponseDominates ==
    (pc = "done" /\ showdown # Null) =>
        /\ \A player \in {"OOP", "IP"} :
              \A h \in 0..(Len(OwnCombos(player)) - 1) :
                 LET opp_reach == InitialReach(showdown, player, h)
                 IN RLe(avg_strategy_traverse(root, player, h, opp_reach,
                                              showdown, trainer),
                        br_traverse(root, player, h, opp_reach, showdown, trainer))
        /\ RLe(Zero, result.exploitability)

\* a finished solve whose strategies can still be exploited: some hand's
\* best response is strictly better than the average strategy
BestResponseDominatesWitness ==
    /\ pc = "done" /\ showdown # Null /\ iter >= 2
    /\ RPos(result.exploitability)
    /\ \E h \in 0..(num_oop(showdown) - 1) :
          LET opp_reach == InitialReach(showdown, "OOP", h)
          IN RLt(avg_strategy_traverse(root, "OOP", h, opp_reach, showdown, trainer),
                 br_traverse(root, "OOP", h, opp_reach, showdown, trainer))

====
